---- MODULE Spec2Model ----
(***************************************************************************)
(* Model of energomera-hass-mqtt: the scheduler loop (main.py), one meter  *)
(* cycle (hass_mqtt.py), the entity publisher (iec_hass_sensor.py,         *)
(* extra_sensors.py), the MQTT client wrapper (mqtt_client.py) and the      *)
(* configuration interpolation (config.py).                                *)
(*                                                                         *)
(* Python strings are TLA+ strings built with \o, so that identifiers and  *)
(* topics are the concatenations the f-strings produce.  A string that the *)
(* code takes apart (str.split, re.sub) is kept in the parsed form the     *)
(* code obtains from it.  Python's None is the string None below, an empty *)
(* dict entry is NoHash.                                                   *)
(***************************************************************************)
EXTENDS Integers, Sequences, FiniteSets, TLC

\* Number of cycles of the scheduler loop that are explored.
MaxCycles == 2
\* Largest number of entries the meter returns for one read.
MaxReading == 2
\* Number of failures of the environment (serial timeouts and errors, bad
\* identification responses, broker failures, lost connections) in one run.
MaxFaults == 2

\* Largest number of entries of a reading whose entries are named.
MaxEntries == 3

\* Number of calls made on the last-will interface of a bus client.
MaxWillCalls == 3

None == "<None>"
NoHash == <<>>
EmptyMap == [x \in {} |-> NoHash]

\* Python truthiness of an Optional[str].
Truthy(s) == s # None /\ s # ""

(***************************************************************************)
(* Dates and the interpolation of configuration expressions.               *)
(***************************************************************************)

\* Wall-clock dates the process may observe, in increasing order.
Dates == << [y |-> 2022, m |-> 5, d |-> 10], [y |-> 2022, m |-> 6, d |-> 1] >>

DaysInMonth(y, m) ==
    IF m \in {4, 6, 9, 11} THEN 30
    ELSE IF m = 2
         THEN (IF (y % 4 = 0 /\ y % 100 # 0) \/ y % 400 = 0 THEN 29 ELSE 28)
         ELSE 31

\* Month arithmetic that moves the month and forgets the year it crosses.
MinusMonths_no_borrow(dt, n) == [dt EXCEPT !.m = ((dt.m - 1 - n) % 12) + 1]

\* date - relativedelta(months=n): the month moves, the day is clipped.
MinusMonths(dt, n) ==
    LET total == dt.y * 12 + (dt.m - 1) - n
        yy == total \div 12
        mm == (total % 12) + 1
        dim == DaysInMonth(yy, mm)
    IN  [y |-> yy, m |-> mm, d |-> IF dt.d > dim THEN dim ELSE dt.d]

\* The years a date can hold (datetime.MINYEAR .. datetime.MAXYEAR).
DateYears == 1 .. 9999

\* Whether date - relativedelta(months=n) raises ValueError: the year the
\* result would have is not one a date can hold.
MinusMonthsRaises(dt, n) == MinusMonths(dt, n).y \notin DateYears

\* strftime zero-padded two-digit field.
Pad2(n) == IF n < 10 THEN "0" \o ToString(n) ELSE ToString(n)

\* date - relativedelta(days=n).
RECURSIVE MinusDays(_, _)
MinusDays(dt, n) ==
    IF n = 0 THEN dt
    ELSE IF dt.d > 1 THEN MinusDays([dt EXCEPT !.d = dt.d - 1], n - 1)
    ELSE IF dt.m > 1
         THEN MinusDays([y |-> dt.y, m |-> dt.m - 1,
                         d |-> DaysInMonth(dt.y, dt.m - 1)], n - 1)
         ELSE MinusDays([y |-> dt.y - 1, m |-> 12, d |-> 31], n - 1)

\* strftime('%m.%y')
FormatMonthYear(dt) == Pad2(dt.m) \o "." \o Pad2(dt.y % 100)

\* strftime('%d.%m.%y')
FormatDayMonthYear(dt) == Pad2(dt.d) \o "." \o FormatMonthYear(dt)

\* The argument of an expression as the regular expression captures it
\* (match.group(1)): empty, or text that may start with '(' and end with ')'
\* around blanks, an integer or something else.
NoArg == [empty |-> TRUE, open |-> FALSE, close |-> FALSE, content |-> "blank",
          v |-> 0, raw |-> ""]
IntArg(n) == [empty |-> FALSE, open |-> TRUE, close |-> TRUE, content |-> "int",
              v |-> n, raw |-> " (" \o ToString(n) \o ")"]
BlankArg == [empty |-> FALSE, open |-> TRUE, close |-> TRUE, content |-> "blank",
             v |-> 0, raw |-> " ( )"]
EmptyParensArg == [BlankArg EXCEPT !.raw = " ()"]
OpenOnlyArg == [empty |-> FALSE, open |-> TRUE, close |-> FALSE,
                content |-> "blank", v |-> 0, raw |-> " ("]
CloseOnlyArg == [empty |-> FALSE, open |-> FALSE, close |-> TRUE,
                 content |-> "blank", v |-> 0, raw |-> " )"]
NonNumericArg == [empty |-> FALSE, open |-> TRUE, close |-> TRUE,
                  content |-> "text", v |-> 0, raw |-> " (non-numeric)"]

\* An argument handler that falls back to the default instead of raising.
energomera_re_expr_param_int_lenient(arg, default) ==
    IF arg.empty \/ ~arg.close \/ ~arg.open \/ arg.content # "int"
    THEN [err |-> FALSE, v |-> default]
    ELSE [err |-> FALSE, v |-> arg.v]

\* The integer argument of an expression, or the EnergomeraConfigError it
\* raises (err).
energomera_re_expr_param_int(arg, default) ==
    IF arg.empty THEN [err |-> FALSE, v |-> default]
    ELSE IF ~arg.close \/ ~arg.open THEN [err |-> TRUE, v |-> 0]
    ELSE IF arg.content = "blank" THEN [err |-> FALSE, v |-> default]
    ELSE IF arg.content = "int" THEN [err |-> FALSE, v |-> arg.v]
    ELSE [err |-> TRUE, v |-> 0]

energomera_prev_month(arg, date_today) ==
    FormatMonthYear(MinusMonths(date_today, energomera_re_expr_param_int(arg, 1).v))

\* The exception _energomera_prev_month raises instead of returning, or None:
\* the EnergomeraConfigError of its argument, or the ValueError of the date
\* arithmetic.
energomera_prev_month_raises(arg, date_today) ==
    IF energomera_re_expr_param_int(arg, 1).err THEN "EnergomeraConfigError"
    ELSE IF MinusMonthsRaises(date_today, energomera_re_expr_param_int(arg, 1).v)
         THEN "ValueError"
         ELSE None

energomera_prev_day(arg, date_today) ==
    FormatDayMonthYear(MinusDays(date_today, energomera_re_expr_param_int(arg, 1).v))

\* A configured string is the sequence of its literal pieces and of the
\* expressions the regular expressions of interpolate() match in it.
Lit(s) == << [kind |-> "lit", text |-> s, arg |-> NoArg] >>
PrevMonthExpr(arg) == << [kind |-> "energomera_prev_month", text |-> "", arg |-> arg] >>
PrevDayExpr(arg) == << [kind |-> "energomera_prev_day", text |-> "", arg |-> arg] >>

InterpolateSegment(seg, date_today) ==
    IF seg.kind = "energomera_prev_month"
    THEN energomera_prev_month(seg.arg, date_today)
    ELSE IF seg.kind = "energomera_prev_day"
    THEN energomera_prev_day(seg.arg, date_today)
    ELSE seg.text

\* re.sub over the whole string: every match is replaced, the rest is kept.
RECURSIVE InterpolateString(_, _)
InterpolateString(tmpl, date_today) ==
    IF tmpl = <<>> THEN ""
    ELSE InterpolateSegment(Head(tmpl), date_today)
         \o InterpolateString(Tail(tmpl), date_today)

\* The string as written in the configuration file.
RECURSIVE RawString(_)
RawString(tmpl) ==
    IF tmpl = <<>> THEN ""
    ELSE (IF Head(tmpl).kind = "lit" THEN Head(tmpl).text
          ELSE "{{ " \o Head(tmpl).kind \o Head(tmpl).arg.raw \o " }}")
         \o RawString(Tail(tmpl))

\* Whether re.sub raises EnergomeraConfigError on the string.
InterpolateRaises(tmpl) ==
    \E i \in 1..Len(tmpl) :
        /\ tmpl[i].kind # "lit"
        /\ energomera_re_expr_param_int(tmpl[i].arg, 1).err

\* The `parameters` section as read from the configuration file
\* (self._orig_config.parameters).  `name` is a string or a list of strings;
\* response_idx is an int or None (has = FALSE).
OrigParameters == <<
    [ address |-> "ET0PE",
      name |-> [list |-> FALSE,
                text |-> Lit("Energy ") \o PrevMonthExpr(NoArg),
                items |-> <<>>],
      device_class |-> "energy", state_class |-> "total", unit |-> "kWh",
      additional_data |-> PrevMonthExpr(NoArg), has_additional_data |-> TRUE,
      entity_name |-> "CURRE_1",
      response_idx |-> [has |-> TRUE, v |-> 1] ],
    [ address |-> "CURRE",
      name |-> [list |-> TRUE, text |-> <<>>, items |-> <<"", "Ib">>],
      device_class |-> "current", state_class |-> None, unit |-> "A",
      additional_data |-> PrevDayExpr(IntArg(2)), has_additional_data |-> TRUE,
      entity_name |-> None,
      response_idx |-> [has |-> FALSE, v |-> 0] ]
>>

\* Expressions interpolate() cannot evaluate.
MalformedExprs ==
    { PrevDayExpr(OpenOnlyArg), PrevDayExpr(CloseOnlyArg),
      PrevDayExpr(NonNumericArg), PrevMonthExpr(NonNumericArg) }

\* Configurations that pass the schema and hold a malformed expression: in
\* the last string of the last parameter, or after a well-formed expression
\* in the first string of the first parameter.
MalformedConfigs ==
    { [OrigParameters EXCEPT ![2].additional_data = e] : e \in MalformedExprs }
    \cup { [OrigParameters EXCEPT ![1].name.text = @ \o Lit(" ") \o e] :
             e \in MalformedExprs }

\* The configurations the process may be started with.
Configs == {OrigParameters} \cup MalformedConfigs

\* One parameter after interpolate(): every str value is interpolated, a list
\* value (a list `name`) and None are left as they are.
InterpolateParam(p, date_today) ==
    [ address |-> p.address,
      name |-> [list |-> p.name.list,
                text |-> IF p.name.list THEN ""
                         ELSE InterpolateString(p.name.text, date_today),
                items |-> p.name.items],
      device_class |-> p.device_class, state_class |-> p.state_class,
      unit |-> p.unit,
      additional_data |-> IF p.has_additional_data
                          THEN InterpolateString(p.additional_data, date_today)
                          ELSE None,
      entity_name |-> p.entity_name,
      response_idx |-> p.response_idx ]

\* config.of.parameters before the first interpolate(): the text as read.
RawParameters(orig) ==
    [i \in 1..Len(orig) |->
        [InterpolateParam(orig[i], Dates[1]) EXCEPT
            !.name.text = IF orig[i].name.list THEN ""
                          ELSE RawString(orig[i].name.text),
            !.additional_data = IF orig[i].has_additional_data
                                THEN RawString(orig[i].additional_data)
                                ELSE None]]

\* interpolate() reading the values it has written itself instead of the
\* original configuration: nothing is left to interpolate after the first call.
InterpolateAll_from_current(orig, current, date_today) ==
    IF current = RawParameters(orig)
    THEN [i \in 1..Len(orig) |-> InterpolateParam(orig[i], date_today)]
    ELSE current

\* config.of.parameters after an interpolate() that does not raise.
InterpolateAll(orig, current, date_today) ==
    [i \in 1..Len(orig) |-> InterpolateParam(orig[i], date_today)]

\* Whether interpolating the `name` or the `additional_data` of a parameter
\* raises.
NameRaises(p) == ~p.name.list /\ InterpolateRaises(p.name.text)
AdditionalDataRaises(p) == p.has_additional_data /\ InterpolateRaises(p.additional_data)

\* An interpolate() whose errors are swallowed.
InterpolateAllRaises_never(orig) == FALSE

\* Whether interpolate() raises EnergomeraConfigError.
InterpolateAllRaises(orig) ==
    \E i \in 1..Len(orig) : NameRaises(orig[i]) \/ AdditionalDataRaises(orig[i])

\* config.of.parameters after an interpolate() that raises: the values before
\* the failing one are stored, the failing one and those after it are not
\* (`name` precedes `additional_data` in a parameter).
InterpolateUntilRaise(orig, current, date_today) ==
    LET first == CHOOSE i \in 1..Len(orig) :
                    /\ NameRaises(orig[i]) \/ AdditionalDataRaises(orig[i])
                    /\ \A j \in 1..(i - 1) :
                          ~NameRaises(orig[j]) /\ ~AdditionalDataRaises(orig[j])
    IN  [i \in 1..Len(orig) |->
            IF i < first THEN InterpolateParam(orig[i], date_today)
            ELSE IF i > first \/ NameRaises(orig[i]) THEN current[i]
            ELSE [current[i] EXCEPT
                    !.name = InterpolateParam(orig[i], date_today).name]]

(***************************************************************************)
(* Entity naming and payloads (IecToHassSensor and its subclasses).        *)
(***************************************************************************)

hass_discovery_prefix == "homeassistant"

\* Class attribute _mqtt_topic_base of the entity classes.
mqtt_topic_base(kind) == IF kind = "binary_sensor" THEN "binary_sensor" ELSE "sensor"

\* list[i] of Python for a zero-based, possibly negative index.
PyIndexOk(seq, i) == -Len(seq) <= i /\ i < Len(seq)
PyIndex(seq, i) == IF i >= 0 THEN seq[i + 1] ELSE seq[Len(seq) + i + 1]

\* A selection whose IndexError leaves the reading as it was read.
iec_try_value_by_index_keeps(p, item) ==
    IF p.response_idx.has /\ PyIndexOk(item, p.response_idx.v)
    THEN << PyIndex(item, p.response_idx.v) >>
    ELSE item

\* The reading after the optional selection of one entry by response_idx; an
\* IndexError empties it.
iec_try_value_by_index(p, item) ==
    IF p.response_idx.has
    THEN IF PyIndexOk(item, p.response_idx.v)
         THEN << PyIndex(item, p.response_idx.v) >>
         ELSE <<>>
    ELSE item

\* self._hass_device_id
hass_device_id(ids) == ids.model \o "_" \o ids.serial_number

\* An identifier whose suffix is the length of the reading.
hass_unique_id_suffix_len(p, k, idx, ids) ==
    hass_device_id(ids) \o "_"
    \o (IF Truthy(p.entity_name) THEN p.entity_name ELSE p.address)
    \o (IF k > 1 THEN "_" \o ToString(k) ELSE "")

\* An identifier without the suffix of the position.
hass_unique_id_no_suffix(p, k, idx, ids) ==
    hass_device_id(ids) \o "_"
    \o (IF Truthy(p.entity_name) THEN p.entity_name ELSE p.address)

\* self._hass_unique_id as hass_gen_hass_sensor_props leaves it: the position
\* is appended for a reading of more than one entry, unless the method has
\* raised before (name[0] of an empty list of names).
hass_unique_id(p, k, idx, ids) ==
    hass_device_id(ids) \o "_"
    \o (IF Truthy(p.entity_name) THEN p.entity_name ELSE p.address)
    \o (IF k > 1 /\ (~p.name.list \/ Len(p.name.items) > 0)
        THEN "_" \o ToString(idx) ELSE "")

\* Identity, display name and topics of the entry at position idx of a reading
\* of k entries.  exc is the exception the method raises, if any.
hass_gen_hass_sensor_props(kind, p, k, idx, ids) ==
    LET device_id == hass_device_id(ids)
        unique_id == hass_unique_id(p, k, idx, ids)
        first_ok == ~p.name.list \/ Len(p.name.items) > 0
        item_name ==
            IF k > 1
            THEN IF p.name.list
                 THEN IF PyIndexOk(p.name.items, idx)
                      THEN PyIndex(p.name.items, idx)
                      ELSE p.address \o " " \o ToString(idx)
                 ELSE p.name.text \o " " \o ToString(idx)
            ELSE IF p.name.list
                 THEN (IF first_ok THEN p.name.items[1] ELSE "")
                 ELSE p.name.text
        topic_base == (IF hass_discovery_prefix # ""
                       THEN hass_discovery_prefix \o "/" ELSE "")
                      \o mqtt_topic_base(kind) \o "/" \o device_id
                      \o "/" \o unique_id
    IN  [ exc |-> IF first_ok THEN None ELSE "IndexError",
          device_id |-> device_id,
          unique_id |-> unique_id,
          item_name |-> item_name,
          config_topic |-> topic_base \o "/config",
          state_topic |-> topic_base \o "/state" ]

\* One "key": "value" member of a JSON document.
JsonMember(key, value) == "\"" \o key \o "\": \"" \o value \o "\""

\* json.dumps of the discovery payload.  The plain sensor asserts its naming
\* properties and drops the members that are None; the binary sensor keeps
\* its fixed members.
hass_config_payload(kind, p, props, ids) ==
    LET device == "\"device\": {" \o JsonMember("name", ids.serial_number)
                  \o ", " \o JsonMember("ids", props.device_id)
                  \o ", " \o JsonMember("model", ids.model)
                  \o ", " \o JsonMember("sw_version", ids.sw_version) \o "}"
        opt(key, value) == IF value = None THEN "" ELSE ", " \o JsonMember(key, value)
        tail == ", " \o JsonMember("state_topic", props.state_topic)
                \o ", " \o JsonMember("value_template", "{{ value_json.value }}") \o "}"
        ids_part == ", " \o JsonMember("unique_id", props.unique_id)
                    \o ", " \o JsonMember("object_id", props.unique_id)
    IN  IF kind = "binary_sensor"
        THEN [ exc |-> None,
               json |-> "{" \o JsonMember("name", props.item_name) \o ", " \o device
                        \o ", " \o JsonMember("device_class", p.device_class)
                        \o ids_part \o tail ]
        ELSE IF ~(props.item_name # "" /\ props.device_id # ""
                  /\ props.unique_id # "" /\ props.state_topic # "")
        THEN [ exc |-> "AssertionError", json |-> "" ]
        ELSE [ exc |-> None,
               json |-> "{" \o JsonMember("name", props.item_name) \o ", " \o device
                        \o opt("device_class", p.device_class)
                        \o ids_part
                        \o opt("unit_of_measurement", p.unit)
                        \o opt("state_class", p.state_class)
                        \o tail ]

\* Values carried by a reading entry: a str from the meter, a bool or a float
\* of a pseudo-sensor.
StrValue(s) == [type |-> "str", s |-> s, b |-> FALSE]
BoolValue(b) == [type |-> "bool", s |-> "", b |-> b]
FloatValue(s) == [type |-> "float", s |-> s, b |-> FALSE]

\* str.lower() == 'true' for the strings of the model.
LowerIsTrue(s) == s \in {"true", "True", "TRUE", "tRuE"}

\* The binary payload follows the truthiness of the value, of any type.
hass_state_payload_truthy(kind, value) ==
    [ exc |-> None,
      json |-> "{" \o JsonMember("value",
                                 IF value.b \/ value.s # "" THEN "ON" ELSE "OFF")
               \o "}" ]

\* json.dumps of the state payload.
hass_state_payload(kind, value) ==
    IF kind = "binary_sensor"
    THEN IF value.type = "bool"
         THEN [ exc |-> None,
                json |-> "{" \o JsonMember("value", IF value.b THEN "ON" ELSE "OFF") \o "}" ]
         ELSE IF value.type = "str"
         THEN [ exc |-> None,
                json |-> "{" \o JsonMember("value",
                                           IF LowerIsTrue(value.s) THEN "ON" ELSE "OFF") \o "}" ]
         ELSE [ exc |-> "TypeError", json |-> "" ]
    ELSE IF value.type = "float"
         THEN [ exc |-> None, json |-> "{\"value\": " \o value.s \o "}" ]
         ELSE [ exc |-> None, json |-> "{" \o JsonMember("value", value.s) \o "}" ]

\* hash() of a str: equal strings have equal hashes, and the strings of one
\* run are told apart by it.
PyHash(s) == << "hash", s >>

(***************************************************************************)
(* MQTT client wrapper (MqttClient) and the publication tracker.           *)
(***************************************************************************)

NoWill == [set |-> FALSE, topic |-> "", payload |-> ""]

\* One call made on the underlying bus client.
BusOp(op, topic, payload, retain, ok) ==
    [op |-> op, topic |-> topic, payload |-> payload, retain |-> retain, ok |-> ok]

\* The underlying will is set at every call.
will_set_unguarded(c, topic, payload) ==
    [will |-> [set |-> TRUE, topic |-> topic, payload |-> payload],
     will_set |-> TRUE,
     ops |-> << BusOp("will_set", topic, payload, FALSE, TRUE) >>]

\* MqttClient.will_set: the underlying will is set unless one has been set.
\* c is [will, will_set]; the result adds the calls made on the underlying
\* client.
will_set(c, topic, payload) ==
    IF c.will_set
    THEN [will |-> c.will, will_set |-> c.will_set, ops |-> <<>>]
    ELSE [will |-> [set |-> TRUE, topic |-> topic, payload |-> payload],
          will_set |-> TRUE,
          ops |-> << BusOp("will_set", topic, payload, FALSE, TRUE) >>]

\* MqttClient.__init__: the client remembers whether a will was among the
\* arguments, which the underlying client registers.
MqttClient_init(has_will, topic, payload) ==
    [ will |-> IF has_will THEN [set |-> TRUE, topic |-> topic, payload |-> payload]
               ELSE NoWill,
      will_set |-> has_will ]

\* MqttClient.will_set of a client constructed with dry_run: nothing in a
\* dry run, else the guarded registration.
MqttClient_will_set(dry_run, c, topic, payload) ==
    IF dry_run
    THEN [will |-> c.will, will_set |-> c.will_set, ops |-> <<>>]
    ELSE will_set(c, topic, payload)

\* The will is cleared and the client still takes one for set.
MqttClient_will_clear_keeps_flag(dry_run, c) ==
    IF dry_run
    THEN [will |-> c.will, will_set |-> c.will_set, ops |-> <<>>]
    ELSE [will |-> NoWill, will_set |-> c.will_set,
          ops |-> << BusOp("will_clear", "", "", FALSE, TRUE) >>]

\* MqttClient.will_clear: nothing in a dry run, else the underlying client
\* drops its will and the client forgets that one was set.
MqttClient_will_clear(dry_run, c) ==
    IF dry_run
    THEN [will |-> c.will, will_set |-> c.will_set, ops |-> <<>>]
    ELSE [will |-> NoWill, will_set |-> FALSE,
          ops |-> << BusOp("will_clear", "", "", FALSE, TRUE) >>]

\* hass_config_payloads_published.get(unique_id, None)
PublishedGet(published, unique_id) ==
    IF unique_id \in DOMAIN published THEN published[unique_id] ELSE NoHash

\* The payload is sent for an identity the tracker has not seen, only.
config_payload_changed_unseen_only(published, unique_id, json) ==
    PublishedGet(published, unique_id) = NoHash

\* The test guarding the discovery publish.
config_payload_changed(published, unique_id, json) ==
    PublishedGet(published, unique_id) # PyHash(json)

\* The tracker is left as it was.
record_published_forgets(published, unique_id, json) == published

\* The payload itself is recorded instead of its hash.
record_published_unhashed(published, unique_id, json) ==
    [u \in DOMAIN published \cup {unique_id} |->
        IF u = unique_id THEN << "raw", json >> ELSE published[u]]

\* Recording an identity drops the others.
record_published_resets(published, unique_id, json) ==
    [u \in {unique_id} |-> PyHash(json)]

\* hass_config_payloads_published[unique_id] = hash(json)
record_published(published, unique_id, json) ==
    [u \in DOMAIN published \cup {unique_id} |->
        IF u = unique_id THEN PyHash(json) ELSE published[u]]

\* `except Exception` of the loop body of process(): every exception of the
\* model derives from Exception.
ExceptionKinds == {"TimeoutError", "AssertionError", "MqttError", "TypeError",
                   "IndexError", "ValueError", "EnergomeraMeterError",
                   "ProtocolError"}
\* The loop body without its except clause.
process_catches_nothing(exc) == FALSE
\* An except clause that lets the errors of the bus through.
process_catches_not_mqtt(exc) == exc \in ExceptionKinds \ {"MqttError"}
process_catches(exc) == exc \in ExceptionKinds

\* What one iteration of the loop of process() leaves behind: the tracker,
\* the will state w = [will, will_set, ops], the calls made on the bus client
\* (those of w, then ops), whether the discovery publish was decided, the
\* identity and payload it was decided for, and the exception raised inside
\* the iteration.
EntryResult(published_, w, ops, decided, unique_id, config_json, exc_) ==
    [ published |-> published_, will |-> w.will, will_set |-> w.will_set,
      ops |-> w.ops \o ops, decided |-> decided, unique_id |-> unique_id,
      config_json |-> config_json, exc |-> exc_ ]

\* The state payload is published with the retain flag.
process_state_retained(st, st_ok, props, w, cfg_json, changed, cfg_ops, published_, state) ==
    IF state.exc # None
    THEN EntryResult(published_, w, cfg_ops, changed, props.unique_id, cfg_json,
                     state.exc)
    ELSE EntryResult(published_, w,
                     cfg_ops \o << BusOp("publish", props.state_topic, state.json,
                                         TRUE, st_ok /\ st.socket) >>,
                     changed, props.unique_id, cfg_json,
                     IF st_ok /\ st.socket THEN None ELSE "MqttError")

\* The state publish that ends the iteration.
process_state(st, st_ok, props, w, cfg_json, changed, cfg_ops, published_, state) ==
    IF state.exc # None
    THEN EntryResult(published_, w, cfg_ops, changed, props.unique_id, cfg_json,
                     state.exc)
    ELSE EntryResult(published_, w,
                     cfg_ops \o << BusOp("publish", props.state_topic, state.json,
                                         FALSE, st_ok /\ st.socket) >>,
                     changed, props.unique_id, cfg_json,
                     IF st_ok /\ st.socket THEN None ELSE "MqttError")

\* The state publish is made although the discovery publish failed.
process_config_state_anyway(kind, value, st, cfg_ok, st_ok, props, w, cfg_json, changed) ==
    process_state(st, st_ok, props, w, cfg_json, changed,
                  IF changed
                  THEN << BusOp("publish", props.config_topic, cfg_json,
                                TRUE, cfg_ok /\ st.socket) >>
                  ELSE <<>>,
                  IF changed /\ cfg_ok /\ st.socket
                  THEN record_published(st.published, props.unique_id, cfg_json)
                  ELSE st.published,
                  hass_state_payload(kind, value))

\* The discovery publish, made when the payload differs from the one
\* recorded for the unique_id, and the recording of a payload that was sent.
process_config(kind, value, st, cfg_ok, st_ok, props, w, cfg_json, changed) ==
    IF changed /\ ~(cfg_ok /\ st.socket)
    THEN EntryResult(st.published, w,
                     << BusOp("publish", props.config_topic, cfg_json, TRUE, FALSE) >>,
                     TRUE, props.unique_id, cfg_json, "MqttError")
    ELSE process_state(st, st_ok, props, w, cfg_json, changed,
                       IF changed
                       THEN << BusOp("publish", props.config_topic, cfg_json,
                                     TRUE, TRUE) >>
                       ELSE <<>>,
                       IF changed
                       THEN record_published(st.published, props.unique_id, cfg_json)
                       ELSE st.published,
                       hass_state_payload(kind, value))

\* The payloads are sent in a setup-only call too.
process_payloads_ignores_setup_only(kind, value, setup_only, st, cfg_ok, st_ok, props, w, cfg) ==
    IF cfg.exc # None
    THEN EntryResult(st.published, w, <<>>, FALSE, props.unique_id, "", cfg.exc)
    ELSE process_config(kind, value, st, cfg_ok, st_ok, props, w, cfg.json,
                        config_payload_changed(st.published, props.unique_id,
                                               cfg.json))

\* The part of the iteration that setup_only skips: the discovery payload is
\* built and compared with the tracker.
process_payloads(kind, value, setup_only, st, cfg_ok, st_ok, props, w, cfg) ==
    IF setup_only
    THEN EntryResult(st.published, w, <<>>, FALSE, props.unique_id, "", None)
    ELSE IF cfg.exc # None
    THEN EntryResult(st.published, w, <<>>, FALSE, props.unique_id, "", cfg.exc)
    ELSE process_config(kind, value, st, cfg_ok, st_ok, props, w, cfg.json,
                        config_payload_changed(st.published, props.unique_id,
                                               cfg.json))

\* A last will registered on the discovery topic of the entity.
process_will_config_topic(kind, p, value, setup_only, st, cfg_ok, st_ok, ids_, props, will_payload) ==
    IF will_payload.exc # None
    THEN EntryResult(st.published,
                     [will |-> st.will, will_set |-> st.will_set, ops |-> <<>>],
                     <<>>, FALSE, props.unique_id, "", will_payload.exc)
    ELSE process_payloads(kind, value, setup_only, st, cfg_ok, st_ok, props,
                          will_set([will |-> st.will, will_set |-> st.will_set],
                                   props.config_topic, will_payload.json),
                          hass_config_payload(kind, p, props, ids_))

\* The registration of the last will, when the entity has one.
process_will(kind, p, value, setup_only, st, cfg_ok, st_ok, ids_, props, will_payload) ==
    IF will_payload.exc # None
    THEN EntryResult(st.published,
                     [will |-> st.will, will_set |-> st.will_set, ops |-> <<>>],
                     <<>>, FALSE, props.unique_id, "", will_payload.exc)
    ELSE process_payloads(kind, value, setup_only, st, cfg_ok, st_ok, props,
                          will_set([will |-> st.will, will_set |-> st.will_set],
                                   props.state_topic, will_payload.json),
                          hass_config_payload(kind, p, props, ids_))

\* The iteration once the naming properties are generated.
process_named(kind, p, value, last_will, setup_only, st, cfg_ok, st_ok, ids_, props) ==
    IF props.exc # None
    THEN EntryResult(st.published,
                     [will |-> st.will, will_set |-> st.will_set, ops |-> <<>>],
                     <<>>, FALSE, props.unique_id, "", props.exc)
    ELSE IF last_will.has
    THEN process_will(kind, p, value, setup_only, st, cfg_ok, st_ok, ids_, props,
                      hass_state_payload(kind, last_will.value))
    ELSE process_payloads(kind, value, setup_only, st, cfg_ok, st_ok, props,
                          [will |-> st.will, will_set |-> st.will_set, ops |-> <<>>],
                          hass_config_payload(kind, p, props, ids_))

\* The entry is named by the number of entities the tracker holds instead of
\* its position.
process_entry_counted(kind, p, k, idx, value, last_will, setup_only, cfg_ok, st_ok, ids_, st) ==
    process_named(kind, p, value, last_will, setup_only, st, cfg_ok, st_ok, ids_,
                  hass_gen_hass_sensor_props(kind, p, k,
                                             Cardinality(DOMAIN st.published), ids_))

\* One iteration of the loop of IecToHassSensor.process() for the entry at
\* position idx of a reading of k entries.  st is [published, will, will_set,
\* socket]; cfg_ok and st_ok are the outcomes the broker gives to the
\* discovery and to the state publish.
process_entry(kind, p, k, idx, value, last_will, setup_only, cfg_ok, st_ok, ids_, st) ==
    process_named(kind, p, value, last_will, setup_only, st, cfg_ok, st_ok, ids_,
                  hass_gen_hass_sensor_props(kind, p, k, idx, ids_))

(***************************************************************************)
(* State.                                                                  *)
(***************************************************************************)

VARIABLES
    pc,             \* position of the program (async_main / iec_read_admin)
    oneshot,        \* config.of.general.oneshot
    orig_config,    \* self._orig_config.parameters, the configuration as read
    today,          \* index in Dates of date.today()
    parameters,     \* config.of.parameters, as interpolate() leaves them
    ids,            \* _model, _sw_version, _serial_number of EnergomeraHassMqtt
    published,      \* IecToHassSensor.hass_config_payloads_published
    will,           \* last will held by the underlying bus client
    mqtt_will_set,  \* MqttClient._will_set
    socket,         \* whether the underlying client has a socket (is connected)
    pidx,           \* index of the parameter being read or processed
    iec_item,       \* reading being processed (after iec_try_value_by_index)
    eidx,           \* zero-based position in iec_item of the next entry
    exc,            \* exception raised by the running or last cycle, or None
    \* History variables, read by the properties only.
    emitted,        \* calls made on the underlying bus client by the last step,
                    \* or messages the broker published on its behalf
    entry,          \* the loop iteration of process() made by the last step,
                    \* or the length of the reading it read (read_len)
    cycles,         \* number of cycles started
    connect_called, \* whether the underlying connect has ever been called
    last_sent,      \* unique_id -> discovery payload last published for it
    decisions,      \* unique_id -> decisions taken for its current payload
    cfg_sent_count, \* <<unique_id, payload>> -> times it was published
    faults,         \* number of failures of the environment so far
    cyc,            \* what happened in the running or last cycle
    naming,         \* identifiers and names given to the entries of readings
    will_log,       \* calls made on the last-will interface of a bus client
    interp          \* an expression interpolated on its own and its outcome

vars == << pc, oneshot, orig_config, today, parameters, ids, published, will,
           mqtt_will_set,
           socket, pidx, iec_item, eidx, exc, emitted, entry, cycles,
           connect_called, last_sent, decisions, cfg_sent_count, faults, cyc,
           naming, will_log, interp >>

NoIds == [model |-> None, sw_version |-> None, serial_number |-> None]

\* No assertion on the identity.
IdsOk_unchecked(i) == TRUE

\* assert self._model and self._sw_version and self._serial_number
IdsOk(i) == Truthy(i.model) /\ Truthy(i.sw_version) /\ Truthy(i.serial_number)

NoEntry == [reached |-> FALSE, unique_id |-> "", config_json |-> "",
            decided |-> FALSE, prev_sent |-> None, prev_hash |-> NoHash,
            exc |-> None, kind |-> "",
            read_len |-> -1]

\* No bus client exercised on its own.
NoWillLog == [dry_run |-> FALSE, calls |-> <<>>]

\* No expression interpolated on its own.
NoInterp == [date |-> Dates[1], arg |-> NoArg, done |-> FALSE, exc |-> None,
             result |-> ""]

NewCycle == [timed_out |-> FALSE, identified |-> FALSE,
             hello |-> [read |-> FALSE, response |-> <<>>],
             online_states |-> <<>>, pub_failed |-> FALSE,
             connect_failed |-> FALSE, bus_touched |-> FALSE,
             prev_failed |-> FALSE, slept |-> FALSE, ended |-> FALSE,
             finalized |-> 0, disconnects |-> 0, breaks |-> 0]

\* Nothing named yet.  k and idx are the length of the reading and the
\* position of the entry named last, reading_ids the identifiers given in the
\* reading so far, seen the identifier and reading length last used for each
\* position, prev the value of seen for the position before the last entry.
NoNaming == [ k |-> 0, idx |-> 0, exc |-> None, unique_id |-> "", item_name |-> "",
              reading_ids |-> <<>>,
              prev |-> [has |-> FALSE, unique_id |-> "", k |-> 0],
              seen |-> EmptyMap ]

Put(f, k, v) == [x \in DOMAIN f \cup {k} |-> IF x = k THEN v ELSE f[x]]
Get(f, k, default) == IF k \in DOMAIN f THEN f[k] ELSE default

Init ==
    /\ pc = "interpolate"
    /\ oneshot \in BOOLEAN
    /\ orig_config \in Configs
    /\ today = 1
    /\ parameters = RawParameters(orig_config)
    /\ ids = NoIds
    /\ published = EmptyMap
    /\ will = NoWill
    /\ mqtt_will_set = FALSE
    /\ socket = FALSE
    /\ pidx = 1
    /\ iec_item = << >>
    /\ eidx = 0
    /\ exc = None
    /\ emitted = << >>
    /\ entry = NoEntry
    /\ cycles = 0
    /\ connect_called = FALSE
    /\ last_sent = EmptyMap
    /\ decisions = EmptyMap
    /\ cfg_sent_count = EmptyMap
    /\ faults = 0
    /\ cyc = NewCycle
    /\ naming = NoNaming
    /\ will_log = NoWillLog
    /\ interp = NoInterp

(***************************************************************************)
(* Pseudo-sensors (EnergomeraHassMqtt.set_online_sensor and                *)
(* set_duration_sensor).                                                   *)
(***************************************************************************)

OnlineParam ==
    [ address |-> "IS_ONLINE",
      name |-> [list |-> FALSE, text |-> "Meter online status", items |-> <<>>],
      device_class |-> "connectivity", state_class |-> None, unit |-> None,
      additional_data |-> None, entity_name |-> None,
      response_idx |-> [has |-> FALSE, v |-> 0] ]

DurationParam ==
    [ address |-> "CYCLE_DURATION",
      name |-> [list |-> FALSE, text |-> "Meter cycle duration", items |-> <<>>],
      device_class |-> None, state_class |-> None, unit |-> "s",
      additional_data |-> None, entity_name |-> None,
      response_idx |-> [has |-> FALSE, v |-> 0] ]

NoLastWill == [has |-> FALSE, value |-> BoolValue(FALSE)]
\* hass_item.state_last_will_payload = False
OnlineLastWill == [has |-> TRUE, value |-> BoolValue(FALSE)]

\* The state of the publisher an entity is processed in.
PublisherState == [published |-> published, will |-> will,
                   will_set |-> mqtt_will_set, socket |-> socket]

\* What process() lets escape of the exception raised in an iteration.
Escaping(r) == IF r.exc # None /\ ~process_catches(r.exc) THEN r.exc ELSE None

\* The result of process() for a one-entry reading, with the exception that
\* leaves process().
WithRaised(r) ==
    [ published |-> r.published, will |-> r.will, will_set |-> r.will_set,
      ops |-> r.ops, decided |-> r.decided, unique_id |-> r.unique_id,
      config_json |-> r.config_json, exc |-> r.exc, raised |-> Escaping(r) ]

\* The stored identity is used by the setup-only call alone.
set_online_sensor_identity_dropped(state, setup_only, cfg_ok, st_ok, i, st) ==
    IF ~(setup_only /\ IdsOk(i))
    THEN [ published |-> st.published, will |-> st.will, will_set |-> st.will_set,
           ops |-> <<>>, decided |-> FALSE, unique_id |-> "", config_json |-> "",
           exc |-> None, raised |-> "AssertionError" ]
    ELSE WithRaised(process_entry("binary_sensor", OnlineParam, 1, 0,
                                  BoolValue(state), OnlineLastWill, setup_only,
                                  cfg_ok, st_ok, i, st))

\* set_online_sensor(state, setup_only): the assertion on the meter identity,
\* then process() of the one-entry pseudo-reading.  raised is the exception
\* leaving the method.
set_online_sensor(state, setup_only, cfg_ok, st_ok, i, st) ==
    IF ~IdsOk(i)
    THEN [ published |-> st.published, will |-> st.will, will_set |-> st.will_set,
           ops |-> <<>>, decided |-> FALSE, unique_id |-> "", config_json |-> "",
           exc |-> None, raised |-> "AssertionError" ]
    ELSE WithRaised(process_entry("binary_sensor", OnlineParam, 1, 0,
                                  BoolValue(state), OnlineLastWill, setup_only,
                                  cfg_ok, st_ok, i, st))

\* set_duration_sensor(value)
set_duration_sensor(value, cfg_ok, st_ok, i, st) ==
    WithRaised(process_entry("sensor", DurationParam, 1, 0, value,
                             NoLastWill, FALSE, cfg_ok, st_ok, i, st))

(***************************************************************************)
(* Bookkeeping of the history variables for one processed entry.           *)
(***************************************************************************)

IsConfigPublish(o) == o.op = "publish" /\ o.retain
IsStatePublish(o) == o.op = "publish" /\ ~o.retain
ConfigSent(r) == \E n \in 1..Len(r.ops) : IsConfigPublish(r.ops[n]) /\ r.ops[n].ok
PublishFailed(ops) == \E n \in 1..Len(ops) : ops[n].op = "publish" /\ ~ops[n].ok
StatePayloads(ops) ==
    LET sel == SelectSeq(ops, IsStatePublish)
    IN  [n \in 1..Len(sel) |-> sel[n].payload]

Record(r, kind) ==
    LET u == r.unique_id
        reached == r.config_json # ""
        old == Get(decisions, u, [json |-> "", trues |-> 0, fails |-> 0])
        same == old.json = r.config_json
        t == IF r.decided THEN 1 ELSE 0
        f == IF r.decided /\ ~ConfigSent(r) THEN 1 ELSE 0
        key == << u, r.config_json >>
    IN  /\ published' = r.published
        /\ will' = r.will
        /\ mqtt_will_set' = r.will_set
        /\ emitted' = r.ops
        /\ entry' = [ reached |-> reached, unique_id |-> u,
                      config_json |-> r.config_json, decided |-> r.decided,
                      prev_sent |-> Get(last_sent, u, None),
                      prev_hash |-> PublishedGet(published, u),
                      exc |-> r.exc, kind |-> kind, read_len |-> -1 ]
        /\ last_sent' = IF ConfigSent(r) THEN Put(last_sent, u, r.config_json)
                        ELSE last_sent
        /\ decisions' = IF reached
                        THEN Put(decisions, u,
                                 [ json |-> r.config_json,
                                   trues |-> IF same THEN old.trues + t ELSE t,
                                   fails |-> IF same THEN old.fails + f ELSE f ])
                        ELSE decisions
        /\ cfg_sent_count' = IF ConfigSent(r)
                             THEN Put(cfg_sent_count, key,
                                      Get(cfg_sent_count, key, 0) + 1)
                             ELSE cfg_sent_count

\* n more failures of the environment, within the budget of the run.
Fault(n) == faults + n <= MaxFaults /\ faults' = faults + n

\* The publishes among ops that the broker failed although the client was
\* connected.
BrokerFailures(ops) ==
    IF socket THEN Len(SelectSeq(ops, LAMBDA o : o.op = "publish" /\ ~o.ok)) ELSE 0

\* A step that processes no entry.
NoRecord(ops) ==
    /\ emitted' = ops
    /\ entry' = NoEntry
    /\ UNCHANGED << interp, last_sent, decisions, cfg_sent_count >>

\* A try block without the except clause.
HandlerOf_no_except(e) == "finally"

\* An except clause that handles every exception.
HandlerOf_except_all(e) == "on_timeout"

\* A try block whose else clause runs after an exception too.
HandlerOf_else_always(e) == IF e = "TimeoutError" THEN "on_timeout" ELSE "online_true"

\* Where iec_read_admin continues when exception e is raised in its try
\* block: the except clause for a TimeoutError, else the finally clause.
HandlerOf(e) == IF e = "TimeoutError" THEN "on_timeout" ELSE "finally"

(***************************************************************************)
(* The scheduler loop (async_main) and one cycle (iec_read_admin).         *)
(***************************************************************************)

\* config.interpolate() at the top of the loop, then the entry into
\* iec_read_admin.  An EnergomeraConfigError is not caught by the loop.
Interpolate ==
    /\ pc = "interpolate"
    /\ cycles < MaxCycles
    /\ IF InterpolateAllRaises(orig_config)
       THEN /\ pc' = "crashed"
            /\ exc' = "EnergomeraConfigError"
            /\ parameters' = InterpolateUntilRaise(orig_config, parameters,
                                                   Dates[today])
            /\ UNCHANGED << interp, cycles, cyc >>
       ELSE /\ pc' = "session"
            /\ exc' = None
            /\ parameters' = InterpolateAll(orig_config, parameters, Dates[today])
            /\ cycles' = cycles + 1
            /\ cyc' = [NewCycle EXCEPT !.slept = cyc.slept, !.ended = cyc.ended,
                                       !.prev_failed = exc # None]
    /\ NoRecord(<<>>)
    /\ UNCHANGED << interp, oneshot, orig_config, naming, will_log, today, ids, published, will,
                    mqtt_will_set, socket, pidx, iec_item, eidx, connect_called,
                    faults >>

\* An exception raised by a call on the serial client inside the try block.
SerialRaises(outcome) ==
    /\ pc' = HandlerOf(outcome)
    /\ exc' = outcome
    /\ cyc' = [cyc EXCEPT !.timed_out = (outcome = "TimeoutError")]
    /\ Fault(1)

\* Opening the serial transport and entering programming mode: connect,
\* startup, ack_with_option_select, read_response, send_password,
\* read_response.
StartSession ==
    /\ pc = "session"
    /\ \/ /\ pc' = "hello"
          /\ UNCHANGED << interp, exc, cyc, faults >>
       \/ \E outcome \in {"TimeoutError", "ProtocolError"} : SerialRaises(outcome)
    /\ NoRecord(<<>>)
    /\ UNCHANGED << interp, oneshot, orig_config, naming, will_log,
                    today, parameters, ids, published, will,
                    mqtt_will_set, socket, pidx, iec_item, eidx, cycles,
                    connect_called >>

\* Responses to the HELLO read: each entry is its value split at the commas.
GoodHello == << "", "CE301", "12", "00123456", "" >>
EmptySerialHello == << "", "CE301", "12", "", "" >>
ShortHello == << "", "CE301", "12", "00123456" >>
BadHelloResponses == { << >>, << GoodHello, GoodHello >>,
                       << EmptySerialHello >>, << ShortHello >> }

\* set_meter_ids(hello_response): the identity stored and the exception
\* raised.
set_meter_ids(i, hello_response) ==
    IF Len(hello_response) # 1
    THEN [ids |-> i, exc |-> "ValueError"]
    ELSE IF Len(hello_response[1]) # 5
    THEN [ids |-> i, exc |-> "ValueError"]
    ELSE [ ids |-> [ model |-> hello_response[1][2],
                     sw_version |-> hello_response[1][3],
                     serial_number |-> hello_response[1][4] ],
           exc |-> IF hello_response[1][2] # "" /\ hello_response[1][3] # ""
                      /\ hello_response[1][4] # ""
                   THEN None ELSE "EnergomeraMeterError" ]

\* The continuation of iec_read_admin after set_meter_ids.
Identified(hello_response, r) ==
    /\ ids' = r.ids
    /\ IF r.exc = None
       THEN /\ pc' = "will_setup"
            /\ cyc' = [cyc EXCEPT !.identified = TRUE,
                                  !.hello = [read |-> TRUE, response |-> hello_response]]
            /\ UNCHANGED exc
       ELSE /\ pc' = HandlerOf(r.exc)
            /\ exc' = r.exc
            /\ cyc' = [cyc EXCEPT !.hello = [read |-> TRUE, response |-> hello_response]]

\* self.set_meter_ids(self.iec_read_values('HELLO'))
Identify ==
    /\ pc = "hello"
    /\ \/ \E outcome \in {"TimeoutError", "ProtocolError"} :
            SerialRaises(outcome) /\ UNCHANGED ids
       \/ /\ Identified(<< GoodHello >>, set_meter_ids(ids, << GoodHello >>))
          /\ UNCHANGED faults
       \/ \E resp \in BadHelloResponses :
            Identified(resp, set_meter_ids(ids, resp)) /\ Fault(1)
    /\ NoRecord(<<>>)
    /\ UNCHANGED << interp, oneshot, orig_config, naming, will_log,
                    today, parameters, published, will, mqtt_will_set,
                    socket, pidx, iec_item, eidx, cycles, connect_called >>

\* The history of the cycle after the calls ops on the bus client.
CycAfter(ops) ==
    [cyc EXCEPT !.pub_failed = cyc.pub_failed \/ PublishFailed(ops),
                !.bus_touched = cyc.bus_touched \/ ops # <<>>]

\* The continuation of iec_read_admin after the setup-only call.
WillSetupDone(r) ==
    /\ Record(r, "online")
    /\ IF r.raised = None
       THEN /\ pc' = "mqtt_connect"
            /\ UNCHANGED exc
       ELSE /\ pc' = HandlerOf(r.raised)
            /\ exc' = r.raised
    /\ cyc' = CycAfter(r.ops)

\* await self.set_online_sensor(False, setup_only=True)
WillSetup ==
    /\ pc = "will_setup"
    /\ WillSetupDone(set_online_sensor(FALSE, TRUE, TRUE, TRUE, ids, PublisherState))
    /\ UNCHANGED << interp, oneshot, orig_config, naming, will_log,
                    today, parameters, ids, socket, pidx, iec_item,
                    eidx, cycles, connect_called, faults >>

\* The first position of the loop over the parameters.
FirstParam == IF Len(parameters) = 0 THEN "send_break" ELSE "read"

\* A connect that never skips the underlying connection.
connect_skips_never(has_socket) == FALSE

\* MqttClient.connect returns without the underlying connect when the
\* underlying client has a socket.
connect_skips(has_socket) == has_socket

\* MqttClient.connect(): nothing when the client has a socket, else the
\* connect of the underlying client, which may fail.
MqttConnect ==
    /\ pc = "mqtt_connect"
    /\ IF connect_skips(socket)
       THEN /\ pc' = FirstParam
            /\ pidx' = 1
            /\ NoRecord(<<>>)
            /\ UNCHANGED << interp, socket, exc, connect_called, cyc, faults >>
       ELSE /\ connect_called' = TRUE
            /\ \/ /\ socket' = TRUE
                  /\ NoRecord(<< BusOp("connect", "", "", FALSE, TRUE) >>)
                  /\ pc' = FirstParam
                  /\ pidx' = 1
                  /\ cyc' = [cyc EXCEPT !.bus_touched = TRUE]
                  /\ UNCHANGED << interp, exc, faults >>
               \/ /\ socket' = FALSE
                  /\ NoRecord(<< BusOp("connect", "", "", FALSE, FALSE) >>)
                  /\ pc' = HandlerOf("MqttError")
                  /\ exc' = "MqttError"
                  /\ cyc' = [cyc EXCEPT !.bus_touched = TRUE,
                                        !.connect_failed = TRUE]
                  /\ Fault(1)
                  /\ UNCHANGED pidx
    /\ UNCHANGED << interp, oneshot, orig_config, naming, will_log,
                    today, parameters, ids, published, will,
                    mqtt_will_set, iec_item, eidx, cycles >>

\* The reading of k entries the meter returns.
Reading(k) == [n \in 1..k |-> StrValue("1." \o ToString(n - 1))]

\* The session is ended after the first parameter.
AfterParam_ends_session(i) == "send_break"

\* Position after the last entry of parameter i: the next parameter, or the
\* end of the session.
AfterParam(i) == IF i < Len(parameters) THEN "read" ELSE "send_break"

\* The loop over the parameters starts again at the first one.
NextParam_restarts(i) == 1

NextParam(i) == IF i < Len(parameters) THEN i + 1 ELSE i

\* The start of process() on the reading: iec_try_value_by_index, then the
\* loop over the entries that are left.
ProcessStarts(item) ==
    /\ iec_item' = item
    /\ eidx' = 0
    /\ IF Len(item) = 0
       THEN pc' = AfterParam(pidx) /\ pidx' = NextParam(pidx)
       ELSE pc' = "entry" /\ UNCHANGED pidx

\* iec_read_values(param.address, param.additional_data), the construction
\* of IecToHassSensor and the start of process().
ReadParam ==
    /\ pc = "read"
    /\ \/ /\ \E outcome \in {"TimeoutError", "ProtocolError"} :
                SerialRaises(outcome) /\ UNCHANGED << interp, pidx, iec_item, eidx >>
          /\ NoRecord(<<>>)
       \/ \E k \in 0..MaxReading :
            /\ ProcessStarts(iec_try_value_by_index(parameters[pidx], Reading(k)))
            /\ emitted' = <<>>
            /\ entry' = [NoEntry EXCEPT !.read_len = k]
            /\ UNCHANGED << interp, exc, cyc, faults, last_sent, decisions, cfg_sent_count >>
    /\ UNCHANGED << interp, oneshot, orig_config, naming, will_log,
                    today, parameters, ids, published, will,
                    mqtt_will_set, socket, cycles, connect_called >>

\* The continuation of process() and of iec_read_admin after one iteration
\* of the loop of process().
EntryDone(r) ==
    /\ Record(r, "parameter")
    /\ cyc' = CycAfter(r.ops)
    /\ Fault(BrokerFailures(r.ops))
    /\ IF Escaping(r) # None
       THEN /\ pc' = HandlerOf(Escaping(r))
            /\ exc' = Escaping(r)
            /\ UNCHANGED << interp, pidx, eidx >>
       ELSE /\ UNCHANGED exc
            /\ IF eidx + 1 < Len(iec_item)
               THEN /\ eidx' = eidx + 1
                    /\ UNCHANGED << interp, pc, pidx >>
               ELSE /\ pc' = AfterParam(pidx)
                    /\ pidx' = NextParam(pidx)
                    /\ eidx' = 0

\* One iteration of the loop of process() for a configured parameter.
ProcessEntry ==
    /\ pc = "entry"
    /\ \E cfg_ok, st_ok \in BOOLEAN :
        EntryDone(process_entry("sensor", parameters[pidx], Len(iec_item), eidx,
                                iec_item[eidx + 1], NoLastWill, FALSE,
                                cfg_ok, st_ok, ids, PublisherState))
    /\ UNCHANGED << interp, oneshot, orig_config, naming, will_log,
                    today, parameters, ids, socket, iec_item, cycles,
                    connect_called >>

\* self._client.send_break(), which may raise as any call on the serial
\* client does.
SendBreak ==
    /\ pc = "send_break"
    /\ \/ /\ pc' = "online_true"
          /\ cyc' = [cyc EXCEPT !.breaks = @ + 1]
          /\ UNCHANGED << interp, exc, faults >>
       \/ \E outcome \in {"TimeoutError", "ProtocolError"} :
            /\ pc' = HandlerOf(outcome)
            /\ exc' = outcome
            /\ cyc' = [cyc EXCEPT !.timed_out = (outcome = "TimeoutError"),
                                  !.breaks = @ + 1]
            /\ Fault(1)
    /\ NoRecord(<<>>)
    /\ UNCHANGED << interp, oneshot, orig_config, naming, will_log,
                    today, parameters, ids, published, will,
                    mqtt_will_set, socket, pidx, iec_item, eidx, cycles,
                    connect_called >>

\* The history of the cycle after a call of set_online_sensor.
CycAfterOnline(ops) ==
    [CycAfter(ops) EXCEPT !.online_states = cyc.online_states \o StatePayloads(ops)]

\* The exception leaving the except clause: the one set_online_sensor
\* raises, else the TimeoutError raised again.
TimeoutHandled(r) ==
    /\ Record(r, "online")
    /\ exc' = IF r.raised # None THEN r.raised ELSE exc
    /\ cyc' = CycAfterOnline(r.ops)
    /\ Fault(BrokerFailures(r.ops))

\* except TimeoutError: await self.set_online_sensor(False); raise exc
OnTimeout ==
    /\ pc = "on_timeout"
    /\ \E cfg_ok, st_ok \in BOOLEAN :
        TimeoutHandled(set_online_sensor(FALSE, FALSE, cfg_ok, st_ok, ids,
                                         PublisherState))
    /\ pc' = "finally"
    /\ UNCHANGED << interp, oneshot, orig_config, naming, will_log,
                    today, parameters, ids, socket, pidx, iec_item,
                    eidx, cycles, connect_called >>

OnlineTrueDone(r) ==
    /\ Record(r, "online")
    /\ IF r.raised # None
       THEN pc' = "finally" /\ exc' = r.raised
       ELSE pc' = "duration" /\ UNCHANGED exc
    /\ cyc' = CycAfterOnline(r.ops)
    /\ Fault(BrokerFailures(r.ops))

\* else: await self.set_online_sensor(True)
OnlineTrue ==
    /\ pc = "online_true"
    /\ \E cfg_ok, st_ok \in BOOLEAN :
        OnlineTrueDone(set_online_sensor(TRUE, FALSE, cfg_ok, st_ok, ids,
                                         PublisherState))
    /\ UNCHANGED << interp, oneshot, orig_config, naming, will_log,
                    today, parameters, ids, socket, pidx, iec_item,
                    eidx, cycles, connect_called >>

\* Elapsed time of a cycle, as json.dumps writes the float.
Durations == {"2.25"}

DurationDone(r) ==
    /\ Record(r, "duration")
    /\ exc' = r.raised
    /\ cyc' = CycAfter(r.ops)
    /\ Fault(BrokerFailures(r.ops))

\* duration = time() - start; await self.set_duration_sensor(duration)
Duration ==
    /\ pc = "duration"
    /\ \E cfg_ok, st_ok \in BOOLEAN, d \in Durations :
        DurationDone(set_duration_sensor(FloatValue(d), cfg_ok, st_ok, ids,
                                         PublisherState))
    /\ pc' = "finally"
    /\ UNCHANGED << interp, oneshot, orig_config, naming, will_log,
                    today, parameters, ids, socket, pidx, iec_item,
                    eidx, cycles, connect_called >>

\* An error of the disconnect leaves the finally clause.
disconnect_outcome_raises(e, disconnect_ok) ==
    IF disconnect_ok THEN e ELSE "SerialException"

\* The exception leaving iec_read_admin after the finally clause, e being
\* the one propagating into it: the inner try swallows what disconnect()
\* raises.
disconnect_outcome(e, disconnect_ok) == e

\* finally: self._client.disconnect(), whatever it raises being ignored.
Finally ==
    /\ pc = "finally"
    /\ \E disconnect_ok \in BOOLEAN :
        /\ pc' = "cycle_end"
        /\ exc' = disconnect_outcome(exc, disconnect_ok)
        /\ cyc' = [cyc EXCEPT !.ended = TRUE, !.disconnects = @ + 1]
    /\ NoRecord(<<>>)
    /\ UNCHANGED << interp, oneshot, orig_config, naming, will_log,
                    today, parameters, ids, published, will,
                    mqtt_will_set, socket, pidx, iec_item, eidx, cycles,
                    connect_called, faults >>

\* Every exception is raised again.
SchedulerReraises_all(e) == TRUE

\* What the loop of async_main does with the exception a cycle raised:
\* an AssertionError is raised again, any other exception is logged.
SchedulerReraises(e) == e = "AssertionError"

\* A loop without the oneshot test.
AfterCyclePc_ignores_oneshot(e, one) ==
    IF e # None /\ SchedulerReraises(e) THEN "crashed" ELSE "sleep"

\* Where async_main continues after a cycle that raised e (None: no
\* exception).
AfterCyclePc(e, one) ==
    IF e # None /\ SchedulerReraises(e) THEN "crashed"
    ELSE IF one THEN "finalize" ELSE "sleep"

\* The except clauses and the oneshot test of the loop of async_main.
AfterCycle ==
    /\ pc = "cycle_end"
    /\ pc' = AfterCyclePc(exc, oneshot)
    /\ NoRecord(<<>>)
    /\ UNCHANGED << interp, oneshot, orig_config, naming, will_log,
                    today, parameters, ids, published, will,
                    mqtt_will_set, socket, pidx, iec_item, eidx, exc, cycles,
                    connect_called, faults, cyc >>

\* await asyncio.sleep(intercycle_delay): time passes.
Sleep ==
    /\ pc = "sleep"
    /\ pc' = "interpolate"
    /\ \E t \in today..Len(Dates) : today' = t
    /\ cyc' = [cyc EXCEPT !.slept = TRUE]
    /\ NoRecord(<<>>)
    /\ UNCHANGED << interp, oneshot, orig_config, naming, will_log,
                    parameters, ids, published, will, mqtt_will_set,
                    socket, pidx, iec_item, eidx, exc, cycles, connect_called,
                    faults >>

\* What the broker publishes for a client whose connection ends without a
\* DISCONNECT: its last will, once.
BrokerWill ==
    IF will.set THEN << BusOp("broker_will", will.topic, will.payload, FALSE, TRUE) >>
    ELSE <<>>

\* The connection to the broker is lost while the program sleeps: the
\* underlying client has no socket any more.
NetworkDrop ==
    /\ pc = "sleep"
    /\ socket
    /\ socket' = FALSE
    /\ Fault(1)
    /\ NoRecord(BrokerWill)
    /\ UNCHANGED << interp, pc, oneshot, orig_config, naming, will_log,
                    today, parameters, ids, published, will,
                    mqtt_will_set, pidx, iec_item, eidx, exc, cycles,
                    connect_called, cyc >>

\* A finalize() that leaves the connection open.
FinalizeOps_no_disconnect(r, disconnect_ok) == r

\* The calls of finalize() after set_online_sensor returned r: the
\* disconnect of the bus client, unless set_online_sensor raised.
FinalizeOps(r, disconnect_ok) ==
    IF r.raised = None
    THEN [r EXCEPT !.ops = r.ops \o << BusOp("disconnect", "", "", FALSE,
                                             disconnect_ok) >>]
    ELSE r

Finalized(r, disconnect_ok) ==
    /\ Record(FinalizeOps(r, disconnect_ok), "online")
    /\ cyc' = [CycAfterOnline(r.ops) EXCEPT !.finalized = @ + 1]
    /\ socket' = IF r.raised = None /\ disconnect_ok THEN FALSE ELSE socket
    /\ Fault(BrokerFailures(r.ops))

\* finalize(): set_online_sensor(False), then the disconnect of the bus
\* client, any exception of either being ignored.
Finalize ==
    /\ pc = "finalize"
    /\ \E cfg_ok, st_ok, disconnect_ok \in BOOLEAN :
        Finalized(set_online_sensor(FALSE, FALSE, cfg_ok, st_ok, ids,
                                    PublisherState), disconnect_ok)
    /\ pc' = "done"
    /\ UNCHANGED << interp, oneshot, orig_config, naming, will_log,
                    today, parameters, ids, pidx, iec_item, eidx, exc,
                    cycles, connect_called >>

\* The positions inside the try statement of iec_read_admin, its except and
\* else clauses included.
InTry == {"session", "hello", "will_setup", "mqtt_connect", "read", "entry",
          "send_break", "on_timeout", "online_true", "duration"}

\* Whether the step at the current position starts by awaiting the event
\* loop: the inter-cycle delay, the connect of a client that has no socket,
\* or the first publish of an entity.
Awaiting ==
    \/ pc = "sleep"
    \/ pc = "mqtt_connect" /\ ~socket
    \/ pc \in {"on_timeout", "online_true", "finalize"} /\ IdsOk(ids)
    \/ pc = "duration"
    \/ /\ pc = "entry"
       /\ process_entry("sensor", parameters[pidx], Len(iec_item), eidx,
                        iec_item[eidx + 1], NoLastWill, FALSE, TRUE, TRUE, ids,
                        PublisherState).ops # <<>>

\* The task running async_main is cancelled (process shutdown): the
\* CancelledError is raised at the await the task is suspended in.  It is not
\* an Exception, so no except clause of process(), iec_read_admin, finalize
\* or async_main catches it and it leaves async_main; the awaited operation
\* is abandoned.  Raised inside iec_read_admin it passes through the finally
\* clause, which disconnects the serial client.
Cancel ==
    /\ Awaiting
    /\ pc' = "cancelled"
    /\ exc' = "CancelledError"
    /\ cyc' = [cyc EXCEPT !.finalized = IF pc = "finalize" THEN @ + 1 ELSE @,
                          !.disconnects = IF pc \in InTry THEN @ + 1 ELSE @]
    /\ NoRecord(<<>>)
    /\ UNCHANGED << interp, oneshot, orig_config, naming, will_log, today, parameters, ids,
                    published, will, mqtt_will_set, socket, pidx, iec_item, eidx,
                    cycles, connect_called, faults >>

\* The process ends while the bus client is connected: after an exception
\* or a cancellation left async_main, or after the disconnect of finalize()
\* failed.  No DISCONNECT is sent.
UncleanExit ==
    /\ pc \in {"crashed", "cancelled", "done"}
    /\ socket
    /\ pc' = "exited"
    /\ socket' = FALSE
    /\ NoRecord(BrokerWill)
    /\ UNCHANGED << interp, oneshot, orig_config, naming, will_log, today, parameters, ids,
                    published, will, mqtt_will_set, pidx, iec_item, eidx, exc,
                    cycles, connect_called, faults, cyc >>

Next ==
    \/ Interpolate
    \/ StartSession
    \/ Identify
    \/ WillSetup
    \/ MqttConnect
    \/ ReadParam
    \/ ProcessEntry
    \/ SendBreak
    \/ OnTimeout
    \/ OnlineTrue
    \/ Duration
    \/ Finally
    \/ AfterCycle
    \/ Sleep
    \/ NetworkDrop
    \/ Finalize
    \/ Cancel
    \/ UncleanExit

Spec == Init /\ [][Next]_vars

(***************************************************************************)
(* The naming of the entries of readings, on its own: one descriptor, the  *)
(* readings the meter returns for it cycle after cycle, and the call of    *)
(* hass_gen_hass_sensor_props for each entry that process() makes.         *)
(***************************************************************************)

\* The `name` of a descriptor: a string or a list of strings.
NamingNames ==
    { [list |-> FALSE, text |-> "Current", items |-> <<>>] }
    \cup { [list |-> TRUE, text |-> "", items |-> l] :
             l \in { <<>>, << "Ia" >>, << "Ia", "Ib" >>, << "Ia", "Ib", "Ic" >> } }

\* Descriptors as the schema accepts them, after interpolate().
NamingDescriptors ==
    { [ address |-> "CURRE", name |-> n, device_class |-> "current",
        state_class |-> None, unit |-> "A", additional_data |-> None,
        entity_name |-> e, response_idx |-> r ] :
        n \in NamingNames, e \in {None, "PHASE"},
        r \in { [has |-> FALSE, v |-> 0], [has |-> TRUE, v |-> 1] } }

NamingInit ==
    /\ pc = "naming_read"
    /\ oneshot = FALSE
    /\ orig_config = OrigParameters
    /\ today = 1
    /\ parameters \in { << d >> : d \in NamingDescriptors }
    /\ ids = set_meter_ids(NoIds, << GoodHello >>).ids
    /\ published = EmptyMap
    /\ will = NoWill
    /\ mqtt_will_set = FALSE
    /\ socket = FALSE
    /\ pidx = 1
    /\ iec_item = << >>
    /\ eidx = 0
    /\ exc = None
    /\ emitted = << >>
    /\ entry = NoEntry
    /\ cycles = 0
    /\ connect_called = FALSE
    /\ last_sent = EmptyMap
    /\ decisions = EmptyMap
    /\ cfg_sent_count = EmptyMap
    /\ faults = 0
    /\ cyc = NewCycle
    /\ naming = NoNaming
    /\ will_log = NoWillLog
    /\ interp = NoInterp

\* The start of process() on the reading the meter returned in a cycle.
NamingStarts(item) ==
    /\ iec_item' = item
    /\ eidx' = 0
    /\ pc' = IF item = <<>> THEN "naming_read" ELSE "naming_entry"
    /\ naming' = [naming EXCEPT !.reading_ids = <<>>]

\* A cycle reads the descriptor: the reading has any number of entries, and
\* process() starts with iec_try_value_by_index.
NamingRead ==
    /\ pc = "naming_read"
    /\ cycles < MaxCycles
    /\ cycles' = cycles + 1
    /\ \E k \in 0..MaxEntries :
          NamingStarts(iec_try_value_by_index(parameters[pidx], Reading(k)))
    /\ UNCHANGED << interp, oneshot, orig_config, today, parameters, ids, published, will,
                    mqtt_will_set, socket, pidx, exc, emitted, entry,
                    connect_called, last_sent, decisions, cfg_sent_count, faults,
                    cyc, will_log >>

\* What the call that returned props leaves for the entry at position eidx.
Named(props) ==
    [ k |-> Len(iec_item), idx |-> eidx, exc |-> props.exc,
      unique_id |-> props.unique_id, item_name |-> props.item_name,
      reading_ids |-> IF props.exc = None
                      THEN Append(naming.reading_ids, props.unique_id)
                      ELSE naming.reading_ids,
      prev |-> IF eidx \in DOMAIN naming.seen
               THEN [ has |-> TRUE, unique_id |-> naming.seen[eidx].unique_id,
                      k |-> naming.seen[eidx].k ]
               ELSE [ has |-> FALSE, unique_id |-> "", k |-> 0 ],
      seen |-> IF props.exc = None
               THEN Put(naming.seen, eidx,
                        [unique_id |-> props.unique_id, k |-> Len(iec_item)])
               ELSE naming.seen ]

\* One iteration of the loop of process(), up to the naming of the entry.
NamingEntry ==
    /\ pc = "naming_entry"
    /\ naming' = Named(hass_gen_hass_sensor_props("sensor", parameters[pidx],
                                                  Len(iec_item), eidx, ids))
    /\ IF eidx + 1 < Len(iec_item)
       THEN eidx' = eidx + 1 /\ UNCHANGED pc
       ELSE eidx' = 0 /\ pc' = "naming_read"
    /\ UNCHANGED << interp, oneshot, orig_config, today, parameters, ids, published, will,
                    mqtt_will_set, socket, pidx, iec_item, exc, emitted, entry,
                    cycles, connect_called, last_sent, decisions, cfg_sent_count,
                    faults, cyc, will_log >>

NamingNext ==
    \/ NamingRead
    \/ NamingEntry

SpecNaming == NamingInit /\ [][NamingNext]_vars


(***************************************************************************)
(* The last-will interface of the bus client, on its own: a client is      *)
(* constructed, with or without a will and with or without dry_run, and    *)
(* will_set and will_clear are called on it in any order.                  *)
(***************************************************************************)

\* Topics and payloads wills are given with.
WillTopics == {"t/online/state", "t/other/state"}
WillPayloads == {"{\"value\": \"OFF\"}", "{\"value\": \"ON\"}"}

WillInit ==
    /\ pc = "will_call"
    /\ oneshot = FALSE
    /\ orig_config = OrigParameters
    /\ today = 1
    /\ parameters = RawParameters(OrigParameters)
    /\ ids = NoIds
    /\ published = EmptyMap
    /\ \E has_will \in BOOLEAN :
          LET c == MqttClient_init(has_will, "t/online/state",
                                   "{\"value\": \"OFF\"}")
          IN  will = c.will /\ mqtt_will_set = c.will_set
    /\ socket = FALSE
    /\ pidx = 1
    /\ iec_item = << >>
    /\ eidx = 0
    /\ exc = None
    /\ emitted = << >>
    /\ entry = NoEntry
    /\ cycles = 0
    /\ connect_called = FALSE
    /\ last_sent = EmptyMap
    /\ decisions = EmptyMap
    /\ cfg_sent_count = EmptyMap
    /\ faults = 0
    /\ cyc = NewCycle
    /\ naming = NoNaming
    /\ will_log \in { [dry_run |-> d, calls |-> <<>>] : d \in BOOLEAN }
    /\ interp = NoInterp

\* The client after a call that returned r, logged as call.
WillCalled(call, r) ==
    /\ will' = r.will
    /\ mqtt_will_set' = r.will_set
    /\ emitted' = r.ops
    /\ will_log' = [will_log EXCEPT !.calls = Append(@, call)]
    /\ UNCHANGED << interp, pc, oneshot, orig_config, today, parameters, ids, published,
                    socket, pidx, iec_item, eidx, exc, entry, cycles,
                    connect_called, last_sent, decisions, cfg_sent_count, faults,
                    cyc, naming >>

\* A call of will_set(topic, payload).
WillSetCall ==
    /\ pc = "will_call"
    /\ Len(will_log.calls) < MaxWillCalls
    /\ \E t \in WillTopics, p \in WillPayloads :
          WillCalled([op |-> "will_set", topic |-> t, payload |-> p],
                     MqttClient_will_set(will_log.dry_run,
                                         [will |-> will, will_set |-> mqtt_will_set],
                                         t, p))

\* A call of will_clear().
WillClearCall ==
    /\ pc = "will_call"
    /\ Len(will_log.calls) < MaxWillCalls
    /\ WillCalled([op |-> "will_clear", topic |-> "", payload |-> ""],
                  MqttClient_will_clear(will_log.dry_run,
                                        [will |-> will, will_set |-> mqtt_will_set]))

WillNext ==
    \/ WillSetCall
    \/ WillClearCall

SpecWill == WillInit /\ [][WillNext]_vars


(***************************************************************************)
(* The processing of a binary entity, on its own: the online entity of an  *)
(* identified meter is processed with a value of any type, time after      *)
(* time, on a bus that is connected or not.                                *)
(***************************************************************************)

\* Values of the types a caller may pass: bool, str, and others.
BinaryValues ==
    { BoolValue(TRUE), BoolValue(FALSE), FloatValue("1.5"),
      [type |-> "int", s |-> "1", b |-> FALSE],
      [type |-> "NoneType", s |-> "", b |-> FALSE] }
    \cup { StrValue(x) : x \in {"true", "True", "TRUE", "tRuE", "false", "on",
                               "1", "yes", "", " true"} }

BinaryInit ==
    /\ pc = "binary_entry"
    /\ oneshot = FALSE
    /\ orig_config = OrigParameters
    /\ today = 1
    /\ parameters = << OnlineParam >>
    /\ ids = set_meter_ids(NoIds, << GoodHello >>).ids
    /\ published = EmptyMap
    /\ will = NoWill
    /\ mqtt_will_set = FALSE
    /\ socket \in BOOLEAN
    /\ pidx = 1
    /\ iec_item \in { << v >> : v \in BinaryValues }
    /\ eidx = 0
    /\ exc = None
    /\ emitted = << >>
    /\ entry = NoEntry
    /\ cycles = 0
    /\ connect_called = FALSE
    /\ last_sent = EmptyMap
    /\ decisions = EmptyMap
    /\ cfg_sent_count = EmptyMap
    /\ faults = 0
    /\ cyc = NewCycle
    /\ naming = NoNaming
    /\ will_log = NoWillLog
    /\ interp = NoInterp

\* The caller has the next value to publish.
BinaryValue ==
    /\ pc = "binary_value"
    /\ cycles < MaxCycles
    /\ pc' = "binary_entry"
    /\ \E v \in BinaryValues : iec_item' = << v >>
    /\ UNCHANGED << interp, oneshot, orig_config, today, parameters, ids, published, will,
                    mqtt_will_set, socket, pidx, eidx, exc, emitted, entry,
                    cycles, connect_called, last_sent, decisions, cfg_sent_count,
                    faults, cyc, naming, will_log >>

\* process() of the binary entity returned r.
BinaryDone(r) ==
    /\ Record(r, "binary")
    /\ exc' = Escaping(r)
    /\ cyc' = CycAfter(r.ops)

\* process() of the one-entry reading of the binary entity.
BinaryEntry ==
    /\ pc = "binary_entry"
    /\ pc' = "binary_value"
    /\ cycles' = cycles + 1
    /\ \E cfg_ok, st_ok \in BOOLEAN :
          BinaryDone(process_entry("binary_sensor", parameters[pidx], 1, 0,
                                   iec_item[1], NoLastWill, FALSE, cfg_ok, st_ok,
                                   ids, PublisherState))
    /\ UNCHANGED << interp, oneshot, orig_config, today, parameters, ids, socket, pidx,
                    iec_item, eidx, connect_called, faults, naming, will_log >>

BinaryNext ==
    \/ BinaryValue
    \/ BinaryEntry

SpecBinary == BinaryInit /\ [][BinaryNext]_vars


(***************************************************************************)
(* The "months before today" expression on its own: one expression is      *)
(* resolved against one date.                                              *)
(***************************************************************************)

\* Largest number of months the arguments count through one by one.
MaxMonths == 25

\* The dates the expression is resolved on: first, middle and last days of
\* January, March, May and December, in a year after a century year, in 2022
\* and in a leap year.
MonthsDates ==
    { [y |-> yy, m |-> mm, d |-> dd] :
        yy \in {2001, 2022, 2024}, mm \in {1, 3, 5, 12}, dd \in {1, 10, 31} }

\* The arguments: none, empty or blank parentheses, a non-integer, the
\* integers up to MaxMonths either way, and two integers far away.
MonthsArgs ==
    {NoArg, EmptyParensArg, BlankArg, NonNumericArg}
        \cup { IntArg(n) : n \in (-MaxMonths .. MaxMonths) \cup {30000, -100000} }

MonthsInit ==
    /\ pc = "months_expr"
    /\ oneshot = FALSE
    /\ orig_config = OrigParameters
    /\ today = 1
    /\ parameters = RawParameters(OrigParameters)
    /\ ids = NoIds
    /\ published = EmptyMap
    /\ will = NoWill
    /\ mqtt_will_set = FALSE
    /\ socket = FALSE
    /\ pidx = 1
    /\ iec_item = << >>
    /\ eidx = 0
    /\ exc = None
    /\ emitted = << >>
    /\ entry = NoEntry
    /\ cycles = 0
    /\ connect_called = FALSE
    /\ last_sent = EmptyMap
    /\ decisions = EmptyMap
    /\ cfg_sent_count = EmptyMap
    /\ faults = 0
    /\ cyc = NewCycle
    /\ naming = NoNaming
    /\ will_log = NoWillLog
    /\ \E dt \in MonthsDates, a \in MonthsArgs :
          interp = [NoInterp EXCEPT !.date = dt, !.arg = a]

\* re.sub calls _energomera_prev_month on the match: the expression is
\* replaced by the month, or the exception leaves it as it was.
MonthsResolve ==
    /\ pc = "months_expr"
    /\ pc' = "months_done"
    /\ interp' = [interp EXCEPT
          !.done = TRUE,
          !.exc = energomera_prev_month_raises(interp.arg, interp.date),
          !.result = IF energomera_prev_month_raises(interp.arg, interp.date) = None
                     THEN energomera_prev_month(interp.arg, interp.date)
                     ELSE ""]
    /\ exc' = energomera_prev_month_raises(interp.arg, interp.date)
    /\ UNCHANGED << oneshot, orig_config, today, parameters, ids, published, will,
                    mqtt_will_set, socket, pidx, iec_item, eidx, emitted, entry,
                    cycles, connect_called, last_sent, decisions, cfg_sent_count,
                    faults, cyc, naming, will_log >>

MonthsNext == MonthsResolve

SpecMonths == MonthsInit /\ [][MonthsNext]_vars


(***************************************************************************)
(* Properties.                                                             *)
(***************************************************************************)

OnlineStateTopic ==
    "homeassistant/binary_sensor/CE301_00123456/CE301_00123456_IS_ONLINE/state"
OffPayload == "{\"value\": \"OFF\"}"

\* The discovery publishes among the calls of the last step that carry the
\* payload of the entry processed by it.
EntryConfigPublishes ==
    { n \in 1..Len(emitted) :
        IsConfigPublish(emitted[n]) /\ emitted[n].payload = entry.config_json }

\* C1 (as amended): the discovery payload of a processed entry is sent exactly
\* when it differs from the payload last sent with success for the entry's
\* unique_id (none sent yet counts as differing): a payload is never sent
\* twice in a row, and a changed payload is sent again.
C1_SentIffDiffersFromLastSent ==
    entry.reached =>
        /\ (EntryConfigPublishes # {}) <=> (entry.prev_sent # entry.config_json)
        /\ Cardinality(EntryConfigPublishes) <= 1

\* C1 witness: a payload that differs from the one sent before for the same
\* unique_id is published.
C1_Witness ==
    /\ entry.reached
    /\ entry.prev_sent # None
    /\ entry.prev_sent # entry.config_json
    /\ \E n \in EntryConfigPublishes : emitted[n].ok

\* C1 (as stated): over the lifetime of the process no discovery payload is
\* sent a second time for its unique_id.
C1_NeverSentTwice ==
    \A key \in DOMAIN cfg_sent_count : cfg_sent_count[key] <= 1

\* C2 (as amended): the decision to send is true exactly when the tracker has
\* no hash for the unique_id or a hash other than the payload's, and for a
\* payload processed repeatedly it is true once more than the number of its
\* failed publishes, at most.
C2_DecisionIffHashDiffers ==
    /\ entry.reached =>
          (entry.decided <=> entry.prev_hash # PyHash(entry.config_json))
    /\ \A u \in DOMAIN decisions : decisions[u].trues <= decisions[u].fails + 1

\* C2 witness: the decision is true a second time for the same payload, the
\* first publish having failed.
C2_Witness ==
    \E u \in DOMAIN decisions : decisions[u].trues = 2 /\ decisions[u].fails >= 1

\* C2 (as stated): for a fixed unique_id and payload processed repeatedly the
\* decision is true exactly once.
C2_TrueExactlyOnce ==
    \A u \in DOMAIN decisions : decisions[u].trues <= 1

\* C3: no last will is registered with the underlying bus client once its
\* connect has been called, and the will it holds when connect is called is
\* the OFF state of the online entity.
C3_NoWillAfterConnect ==
    /\ \A n \in 1..Len(emitted) : emitted[n].op = "will_set" => ~connect_called
    /\ connect_called =>
          will = [set |-> TRUE, topic |-> OnlineStateTopic, payload |-> OffPayload]

\* C3 witness: the online entity is published on a client that was connected.
C3_Witness ==
    /\ connect_called
    /\ entry.kind = "online"
    /\ entry.reached
    /\ emitted # <<>>

\* C4 (as stated): a transport timeout in a cycle never terminates the
\* process with an error.
C4_TimeoutNeverFatal ==
    ~(pc = "crashed" /\ cyc.timed_out)

\* The failed discovery publishes among the calls of the last step.
FailedConfigPublishes ==
    { n \in 1..Len(emitted) : IsConfigPublish(emitted[n]) /\ ~emitted[n].ok }

\* C5 (as amended): a cycle that times out after its identification
\* succeeded makes at most one state publish of the online entity, of value
\* OFF: exactly one unless the discovery publish before it fails; and the
\* bus client holds the OFF last will of the entity.
C5_OneOffPublishOnTimeout ==
    (cyc.timed_out /\ cyc.identified /\ pc = "finally") =>
        /\ Len(cyc.online_states) = (IF FailedConfigPublishes # {} THEN 0 ELSE 1)
        /\ \A n \in 1..Len(cyc.online_states) : cyc.online_states[n] = OffPayload
        /\ will = [set |-> TRUE, topic |-> OnlineStateTopic, payload |-> OffPayload]

\* C5 witness: the OFF state is published in a cycle that timed out after
\* its identification.
C5_Witness ==
    /\ cyc.timed_out
    /\ cyc.identified
    /\ pc = "finally"
    /\ cyc.online_states = << OffPayload >>

\* C5 (as stated): a cycle that times out after its identification succeeded
\* makes exactly one state publish of the online entity.
C5_ExactlyOnePublish ==
    (cyc.timed_out /\ cyc.identified /\ pc = "finally") =>
        Len(cyc.online_states) = 1

\* C6: an exception raised while an entry of a reading is processed leaves
\* the cycle without exception, and the cycle goes on with the next entry of
\* the reading, else with the next parameter, else with the end of the
\* session.
C6_EntryFailureIsolated ==
    [][ (pc = "entry" /\ entry'.exc # None) =>
            /\ exc' = None
            /\ IF eidx + 1 < Len(iec_item)
               THEN pc' = "entry" /\ eidx' = eidx + 1 /\ pidx' = pidx
               ELSE IF pidx < Len(parameters)
               THEN pc' = "read" /\ pidx' = pidx + 1
               ELSE pc' = "send_break" ]_vars

\* C6 witness: the first entry of a reading failed on its name and the
\* second entry is the next to be processed.
C6_Witness ==
    /\ pc = "entry"
    /\ eidx = 1
    /\ entry.kind = "parameter"
    /\ entry.exc = "AssertionError"

\* C7 (as amended): a failed bus connect ends the try block of the cycle with
\* the bus error, which leaves the cycle; a failed publish is caught with the
\* entry it belongs to, and the cycle carries on.
C7_ConnectPropagatesPublishCaught ==
    [][ /\ (pc = "mqtt_connect" /\ cyc'.connect_failed) =>
                (exc' = "MqttError" /\ pc' = "finally")
        /\ (pc = "finally" /\ cyc.connect_failed) =>
                (exc' = "MqttError" /\ pc' = "cycle_end")
        /\ (pc = "entry" /\ PublishFailed(emitted')) =>
                (exc' = None /\ pc' \in {"entry", "read", "send_break"})
        /\ (pc = "online_true" /\ PublishFailed(emitted')) =>
                (exc' = None /\ pc' = "duration") ]_vars

\* C7 witness: a cycle ended with the error of a failed bus connect.
C7_Witness ==
    /\ pc = "cycle_end"
    /\ cyc.connect_failed
    /\ exc = "MqttError"

\* C7 (as stated): a cycle in which the bus connect or a publish failed ends
\* with an exception.
C7_BusFailureEndsCycle ==
    (pc = "cycle_end" /\ (cyc.connect_failed \/ cyc.pub_failed)) => exc # None

\* The identification responses of the claim: not exactly one entry, or an
\* empty model, software version or serial number.
BadIdentification(resp) ==
    \/ Len(resp) # 1
    \/ /\ Len(resp) = 1
       /\ Len(resp[1]) = 5
       /\ \E n \in 2..4 : resp[1][n] = ""

\* C8 (as stated): a cycle whose identification response is bad ends with an
\* EnergomeraMeterError and without a call on the bus client.
C8_BadIdentificationIsMeterError ==
    (pc = "cycle_end" /\ cyc.hello.read /\ BadIdentification(cyc.hello.response)) =>
        (exc = "EnergomeraMeterError" /\ ~cyc.bus_touched)

\* C9: after a cycle the loop terminates with the exception only when it is
\* an assertion failure; after any other exception, as after none, it goes
\* on to the delay (to finalize when one-shot), and the delay, unless the
\* task is cancelled in it, leads to the next cycle.
C9_OnlyAssertionTerminates ==
    [][ /\ (pc = "cycle_end" /\ exc = "AssertionError") => pc' = "crashed"
        /\ (pc = "cycle_end" /\ exc # "AssertionError") =>
                pc' = (IF oneshot THEN "finalize" ELSE "sleep")
        /\ (pc = "sleep" /\ pc' \notin {"sleep", "cancelled"}) => pc' = "interpolate"
        /\ (pc = "interpolate" /\ exc # None /\ ~InterpolateAllRaises(orig_config)) =>
                pc' = "session" ]_vars

\* C9 witness: a cycle has run to its end after a cycle that failed.
C9_Witness ==
    /\ cycles = 2
    /\ cyc.prev_failed
    /\ pc = "cycle_end"
    /\ exc = None

\* C10: one-shot runs one cycle, then finalize, then ends; otherwise the
\* program never finalizes, and a cycle after the first starts only once the
\* previous one has ended and the delay has elapsed.
C10_OneShotOrRepeat ==
    /\ oneshot => cycles <= 1
    /\ pc \in {"finalize", "done"} => (oneshot /\ cycles = 1 /\ cyc.ended)
    /\ (pc = "session" /\ cycles > 1) => (cyc.ended /\ cyc.slept)
    /\ pc = "sleep" => (~oneshot /\ cyc.ended)

\* C10 witness: a one-shot run ended after its only cycle failed.
C10_Witness ==
    /\ pc = "done"
    /\ oneshot
    /\ cycles = 1
    /\ exc \notin {None, "AssertionError"}

\* C11 (as stated): when the process has shut down, by the end of a one-shot
\* loop or by a cancellation in the inter-cycle delay or in a bus operation,
\* finalize() has been invoked exactly once.
C11_FinalizeOnceOnShutdown ==
    pc \in {"done", "cancelled"} => cyc.finalized = 1

OnPayload == "{\"value\": \"ON\"}"

\* C12: finalize() ends without raising whatever the broker answers: it
\* attempts the publishes of the online entity with the state OFF, then the
\* disconnect, which is its last call and, when it succeeds, leaves no
\* connection; with no meter identity it makes no call and there is no
\* connection to close.  After a one-shot run in which nothing failed the
\* state messages of the online entity are ON then OFF.
C12_FinalizeNeverRaises ==
    [][ (pc = "finalize" /\ pc' # "cancelled") =>
          /\ pc' = "done"
          /\ exc' = exc
          /\ IdsOk(ids) =>
                /\ emitted' # <<>>
                /\ emitted'[Len(emitted')].op = "disconnect"
                /\ emitted'[Len(emitted')].ok => ~socket'
                /\ \A n \in 1..(Len(emitted') - 1) :
                      /\ emitted'[n].op = "publish"
                      /\ IsStatePublish(emitted'[n]) =>
                            /\ emitted'[n].topic = OnlineStateTopic
                            /\ emitted'[n].payload = OffPayload
                /\ (\A n \in 1..Len(emitted') : emitted'[n].ok) =>
                      \E n \in 1..Len(emitted') : IsStatePublish(emitted'[n])
          /\ ~IdsOk(ids) => (emitted' = <<>> /\ ~socket')
          /\ (exc = None /\ ~cyc'.pub_failed) =>
                cyc'.online_states = << OnPayload, OffPayload >> ]_vars

\* C12 witness: a one-shot run in which nothing failed has been finalized.
C12_Witness ==
    /\ pc = "done"
    /\ exc = None
    /\ ~cyc.pub_failed
    /\ ~socket
    /\ cyc.online_states = << OnPayload, OffPayload >>
    /\ emitted # <<>>
    /\ emitted[Len(emitted)].op = "disconnect"

\* C13: the last will the client registers is the OFF state message of the
\* online entity: the state publishes made for online=false by the timeout
\* path and by finalize() have its topic and its payload, and when the
\* connection ends uncleanly the broker publishes exactly that message, once.
C13_LastWillIsOfflineState ==
    /\ will.set => (will.topic = OnlineStateTopic /\ will.payload = OffPayload)
    /\ (pc = "done" \/ (pc = "finally" /\ cyc.timed_out /\ entry.kind = "online")) =>
          \A n \in 1..Len(emitted) :
              IsStatePublish(emitted[n]) =>
                  /\ will.set
                  /\ emitted[n].topic = will.topic
                  /\ emitted[n].payload = will.payload
    /\ pc = "exited" =>
          emitted = << BusOp("broker_will", OnlineStateTopic, OffPayload, FALSE, TRUE) >>

\* C13 witness: the process ended uncleanly after a cycle that timed out and
\* published the OFF state; the broker published the last will.
C13_Witness ==
    /\ pc = "exited"
    /\ cyc.timed_out
    /\ cyc.online_states = << OffPayload >>
    /\ Len(emitted) = 1
    /\ emitted[1].op = "broker_will"
    /\ emitted[1].payload = OffPayload

DurationStateTopic ==
    "homeassistant/sensor/CE301_00123456/CE301_00123456_CYCLE_DURATION/state"

\* The state publishes on topic t among the calls ops.
StatePublishesOn(ops, t) ==
    SelectSeq(ops, LAMBDA o : IsStatePublish(o) /\ o.topic = t)

FailedConfigPublish(ops) ==
    \E n \in 1..Len(ops) : IsConfigPublish(ops[n]) /\ ~ops[n].ok

\* C14 (as stated): a cycle that no exception escaped has made exactly one
\* online=true state publish.
C14_ExactlyOneOnlineTrue ==
    (pc = "finally" /\ exc = None) => cyc.online_states = << OnPayload >>

\* C14: the online=true state publish is made only by the else clause of the
\* cycle, which is entered only after the end of the session (after every
\* parameter), in a cycle that raised nothing and did not time out; it is
\* followed by the duration step.  Each of the two steps makes one state
\* publish, ON for the online entity, unless the discovery publish of its
\* entity fails, in which case it makes none.
C14_OnlineTrueThenDuration ==
    [][ /\ (\E n \in 1..Len(emitted') :
              /\ IsStatePublish(emitted'[n])
              /\ emitted'[n].topic = OnlineStateTopic
              /\ emitted'[n].payload = OnPayload) => pc = "online_true"
        /\ StatePublishesOn(emitted', DurationStateTopic) # <<>> => pc = "duration"
        /\ (pc' = "online_true" /\ pc # "online_true") => pc = "send_break"
        /\ (pc' = "duration" /\ pc # "duration") => pc = "online_true"
        /\ (pc' = "send_break" /\ pc # "send_break") =>
              /\ pc \in {"read", "entry"}
              /\ pidx = Len(parameters)
              /\ pc = "entry" => eidx + 1 = Len(iec_item)
        /\ pc = "online_true" => (exc = None /\ ~cyc.timed_out)
        /\ (pc = "online_true" /\ pc' # "cancelled") =>
              /\ pc' = "duration"
              /\ StatePayloads(StatePublishesOn(emitted', OnlineStateTopic))
                    = IF FailedConfigPublish(emitted') THEN <<>> ELSE << OnPayload >>
              /\ cyc'.online_states = StatePayloads(emitted')
        /\ (pc = "duration" /\ pc' # "cancelled") =>
              /\ pc' = "finally"
              /\ Len(StatePublishesOn(emitted', DurationStateTopic))
                    = IF FailedConfigPublish(emitted') THEN 0 ELSE 1
        /\ cyc'.timed_out => \A n \in 1..Len(cyc'.online_states) :
                                 cyc'.online_states[n] # OnPayload ]_vars

\* C14 witness: a cycle has published ON and then its duration.
C14_Witness ==
    /\ pc = "finally"
    /\ exc = None
    /\ cyc.online_states = << OnPayload >>
    /\ Len(StatePublishesOn(emitted, DurationStateTopic)) = 1

\* C15: in every cycle, whatever the dates of the earlier calls, the strings
\* interpolate() has stored are the original texts with their expressions
\* evaluated for the date of that call: the previous month (05.22 on
\* 2022-06-01, 04.22 on 2022-05-10) and the day two days before; the original
\* texts still hold the expressions.
C15_InterpolatedFromOriginal ==
    (cycles >= 1 /\ pc \notin {"interpolate", "cancelled", "exited"}) =>
        /\ orig_config = OrigParameters
        /\ RawString(orig_config[1].name.text) = "Energy {{ energomera_prev_month }}"
        /\ RawString(orig_config[1].additional_data) = "{{ energomera_prev_month }}"
        /\ RawString(orig_config[2].additional_data) = "{{ energomera_prev_day (2) }}"
        /\ parameters[1].name.text = (IF today = 1 THEN "Energy 04.22" ELSE "Energy 05.22")
        /\ parameters[1].additional_data = (IF today = 1 THEN "04.22" ELSE "05.22")
        /\ parameters[2].additional_data = (IF today = 1 THEN "08.05.22" ELSE "30.05.22")
        /\ parameters[2].name.items = orig_config[2].name.items
        /\ \A i \in 1..2 : parameters[i].address = orig_config[i].address

\* C15 witness: the second call, on a later date, has replaced the values the
\* first call had stored.
C15_Witness ==
    /\ pc = "session"
    /\ cycles = 2
    /\ today = 2
    /\ cyc.slept
    /\ parameters[1].additional_data = "05.22"
    /\ parameters[2].additional_data = "30.05.22"

\* An expression whose argument has an unbalanced parenthesis or is not an
\* integer occurs in the text.
HasMalformedExpr(tmpl) ==
    \E n \in 1..Len(tmpl) :
        /\ tmpl[n].kind # "lit"
        /\ tmpl[n].arg \in {OpenOnlyArg, CloseOnlyArg, NonNumericArg}

\* C16: a configuration with a malformed expression makes interpolate() raise
\* EnergomeraConfigError, and the value holding the expression is exposed as
\* the text that was read, never as a partly substituted one.
C16_MalformedExprRaises ==
    ((\E i \in 1..Len(orig_config) :
         \/ HasMalformedExpr(orig_config[i].name.text)
         \/ HasMalformedExpr(orig_config[i].additional_data))
     /\ pc # "interpolate") =>
        /\ pc = "crashed"
        /\ exc = "EnergomeraConfigError"
        /\ \A i \in 1..Len(orig_config) :
              /\ HasMalformedExpr(orig_config[i].name.text) =>
                    parameters[i].name.text = RawString(orig_config[i].name.text)
              /\ HasMalformedExpr(orig_config[i].additional_data) =>
                    parameters[i].additional_data
                        = RawString(orig_config[i].additional_data)
        /\ orig_config[2].additional_data = PrevDayExpr(OpenOnlyArg) =>
              parameters[2].additional_data = "{{ energomera_prev_day ( }}"

\* C16 witness: interpolate() has raised on a name whose second expression
\* has a non-numeric argument; the name is exposed as read.
C16_Witness ==
    /\ pc = "crashed"
    /\ exc = "EnergomeraConfigError"
    /\ parameters[1].name.text
         = "Energy {{ energomera_prev_month }} {{ energomera_prev_day (non-numeric) }}"

\* C17: with a malformed expression in the configuration the process ends at
\* the first interpolate() of the loop with the EnergomeraConfigError: no
\* cycle is started, no meter session is opened, and the bus client is never
\* given a will, connected or asked to publish.
C17_MalformedConfigFatalAtStartup ==
    (\E i \in 1..Len(orig_config) :
        \/ HasMalformedExpr(orig_config[i].name.text)
        \/ HasMalformedExpr(orig_config[i].additional_data)) =>
        /\ pc \in {"interpolate", "crashed"}
        /\ pc = "interpolate" => exc = None
        /\ cycles = 0
        /\ ~connect_called
        /\ ~socket
        /\ ~will.set
        /\ emitted = <<>>
        /\ published = EmptyMap
        /\ last_sent = EmptyMap
        /\ ~cyc.bus_touched
        /\ ~cyc.hello.read
        /\ ids = NoIds

\* C17 witness: the process has ended on a configuration whose last string
\* has an expression with an unbalanced parenthesis.
C17_Witness ==
    /\ pc = "crashed"
    /\ exc = "EnergomeraConfigError"
    /\ orig_config[2].additional_data = PrevDayExpr(CloseOnlyArg)
    /\ cycles = 0
    /\ ~connect_called

\* C18 (as stated): the unique_id of a descriptor and position is the same
\* in every cycle, whatever readings the meter returns.
C18_UniqueIdSameInEveryCycle ==
    (naming.prev.has /\ naming.exc = None) =>
        naming.unique_id = naming.prev.unique_id

\* C18: the unique_id of a descriptor and position is the one of the earlier
\* cycle when both readings have more than one entry or both have one; it
\* differs when one reading has one entry and the other more.
C18_UniqueIdStableForSameShape ==
    (naming.prev.has /\ naming.exc = None) =>
        IF (naming.prev.k > 1) = (naming.k > 1)
        THEN naming.unique_id = naming.prev.unique_id
        ELSE naming.unique_id # naming.prev.unique_id

\* C18 witness: an entry of a three-entry reading has been named after the
\* entry at its position in an earlier two-entry reading.
C18_Witness ==
    /\ naming.prev.has
    /\ naming.exc = None
    /\ naming.prev.k = 2
    /\ naming.k = 3
    /\ naming.idx = 1
    /\ naming.unique_id = "CE301_00123456_CURRE_1"

\* entity_name or address of the descriptor being named.
NamingKey ==
    IF parameters[1].entity_name \in {None, ""} THEN parameters[1].address
    ELSE parameters[1].entity_name

\* C19: a named entry of a one-entry reading has the unique_id
\* <model>_<serial>_<entity_name or address>; the entry at position N of a
\* longer reading has that id followed by _N; the ids given within one
\* reading are pairwise distinct.
C19_UniqueIdSuffix ==
    (naming.k >= 1 /\ naming.exc = None) =>
        /\ naming.k = 1 => naming.unique_id = "CE301_00123456_" \o NamingKey
        /\ naming.k > 1 =>
              naming.unique_id = "CE301_00123456_" \o NamingKey \o "_"
                                 \o ToString(naming.idx)
        /\ (naming.k = 3 /\ naming.idx = 2 /\ parameters[1].entity_name = None) =>
              naming.unique_id = "CE301_00123456_CURRE_2"
        /\ \A a, b \in 1..Len(naming.reading_ids) :
              a # b => naming.reading_ids[a] # naming.reading_ids[b]

\* C19 witness: the three entries of a reading have been given ids.
C19_Witness ==
    /\ naming.k = 3
    /\ naming.exc = None
    /\ naming.reading_ids = << "CE301_00123456_PHASE_0", "CE301_00123456_PHASE_1",
                               "CE301_00123456_PHASE_2" >>

\* C20 (as stated): with a list of names the entry at position i is named by
\* the element at position i, or "<address> <i>" when the list is shorter
\* than the reading; with a scalar name and several entries it is named
\* "<name> <i>".
C20_DisplayNames ==
    naming.k >= 1 =>
        /\ naming.exc = None
        /\ parameters[1].name.list =>
              naming.item_name =
                  IF naming.idx < Len(parameters[1].name.items)
                  THEN parameters[1].name.items[naming.idx + 1]
                  ELSE parameters[1].address \o " " \o ToString(naming.idx)
        /\ (~parameters[1].name.list /\ naming.k > 1) =>
              naming.item_name = parameters[1].name.text \o " " \o ToString(naming.idx)

\* C21: when the reading of a descriptor is not longer than its response_idx,
\* the step that reads it leaves no entry to process, raises nothing, makes
\* no call on the bus client, leaves the tracker as it is and goes on to the
\* next descriptor (to the end of the session after the last one).
C21_IndexPastEndSkipsDescriptor ==
    [][ (/\ pc = "read"
         /\ entry'.read_len >= 0
         /\ parameters[pidx].response_idx.has
         /\ entry'.read_len <= parameters[pidx].response_idx.v) =>
            /\ iec_item' = <<>>
            /\ emitted' = <<>>
            /\ published' = published
            /\ last_sent' = last_sent
            /\ exc' = exc
            /\ pc' = (IF pidx < Len(parameters) THEN "read" ELSE "send_break")
            /\ pidx < Len(parameters) => pidx' = pidx + 1 ]_vars

\* C21 witness: a one-entry reading of the first descriptor, whose
\* response_idx is 1, has been skipped and the second descriptor is next.
C21_Witness ==
    /\ pc = "read"
    /\ pidx = 2
    /\ parameters[1].response_idx = [has |-> TRUE, v |-> 1]
    /\ entry.read_len = 1
    /\ iec_item = <<>>
    /\ exc = None

\* C22: the connect of a cycle calls the underlying connect only when the
\* client has no socket, and then once; with a socket it makes no call, raises
\* nothing and the cycle goes on.  A connection is never ended by a cycle:
\* only by the network, by finalize() or by the end of the process.
C22_ConnectOnlyWhenDisconnected ==
    [][ /\ (\E n \in 1..Len(emitted') : emitted'[n].op = "connect") =>
              (pc = "mqtt_connect" /\ ~socket /\ Len(emitted') = 1)
        /\ (pc = "mqtt_connect" /\ socket) =>
              /\ emitted' = <<>>
              /\ socket'
              /\ exc' = exc
              /\ pc' = "read"
        /\ (pc = "mqtt_connect" /\ ~socket /\ pc' # "cancelled") =>
              /\ Len(emitted') = 1
              /\ emitted'[1].op = "connect"
              /\ socket' = emitted'[1].ok
        /\ (socket /\ ~socket') =>
              pc \in {"sleep", "finalize", "done", "crashed", "cancelled"} ]_vars

\* C22 witness: the connect of the second cycle has found the connection of
\* the first and made no call.
C22_Witness ==
    /\ pc = "read"
    /\ pidx = 1
    /\ cycles = 2
    /\ socket
    /\ connect_called
    /\ emitted = <<>>
    /\ entry = NoEntry

\* The discovery publishes among ops that the broker accepted.
ConfigPublishesSent(ops) ==
    SelectSeq(ops, LAMBDA o : IsConfigPublish(o) /\ o.ok)

\* C23: a step changes the tracker only for the unique_id of the entry it
\* processes, only when it has made a discovery publish that succeeded, and
\* to the hash of the payload of that publish; a step without a successful
\* discovery publish (a failed one, a state publish, the setup-only call, the
\* registration of the last will) leaves the tracker as it is.
C23_TrackerChangesAfterConfigSent ==
    [][ /\ ConfigPublishesSent(emitted') = <<>> => published' = published
        /\ ConfigPublishesSent(emitted') # <<>> =>
              /\ Len(ConfigPublishesSent(emitted')) = 1
              /\ entry'.unique_id \in DOMAIN published'
              /\ published'[entry'.unique_id]
                    = PyHash(ConfigPublishesSent(emitted')[1].payload)
              /\ ConfigPublishesSent(emitted')[1].payload = entry'.config_json
              /\ \A u \in DOMAIN published' \ {entry'.unique_id} :
                    u \in DOMAIN published /\ published'[u] = published[u] ]_vars

\* C23 witness: the step that registered the last will and the step whose
\* discovery publish failed have left the tracker empty; a later step has
\* recorded a payload it sent.
C23_Witness ==
    /\ will.set
    /\ cyc.pub_failed
    /\ ConfigPublishesSent(emitted) # <<>>
    /\ DOMAIN published = {entry.unique_id}
    /\ published[entry.unique_id] = PyHash(entry.config_json)

\* C24: an entry of the tracker is never removed: whatever a step does, in a
\* cycle, on a failure path or in finalize(), every unique_id the tracker
\* holds is still held after it.
C24_TrackerEntriesPersist ==
    [][ \A u \in DOMAIN published :
            u \in DOMAIN published' /\ published'[u] # NoHash ]_vars

\* C24 witness: the entries recorded by the first cycle are held after a
\* second cycle that timed out.
C24_Witness ==
    /\ cycles = 2
    /\ pc = "cycle_end"
    /\ cyc.timed_out
    /\ Cardinality(DOMAIN published) >= 3

\* C25: a step that makes a state publish processes an entry whose unique_id
\* the tracker holds with the hash of the entry's discovery payload, and that
\* payload is the one last sent with success for the unique_id; a step whose
\* discovery publish failed makes no state publish.
C25_StateOnlyAfterConfigRecorded ==
    [][ /\ (\E n \in 1..Len(emitted') : IsStatePublish(emitted'[n])) =>
              /\ entry'.reached
              /\ PublishedGet(published', entry'.unique_id)
                    = PyHash(entry'.config_json)
              /\ Get(last_sent', entry'.unique_id, None) = entry'.config_json
        /\ FailedConfigPublish(emitted') =>
              /\ StatePayloads(emitted') = <<>>
              /\ entry'.exc = "MqttError" ]_vars

\* C25 witness: in the second cycle a state publish is made for an entry
\* whose discovery payload the first cycle sent, after a publish for another
\* entry failed in this cycle.
C25_Witness ==
    /\ cycles = 2
    /\ entry.kind = "parameter"
    /\ cyc.pub_failed
    /\ StatePayloads(emitted) # <<>>
    /\ ~PublishFailed(emitted)
    /\ ConfigPublishesSent(emitted) = <<>>
    /\ entry.prev_hash = PyHash(entry.config_json)

\* Some call of ops is a publish.
HasPublish(ops) == \E n \in 1..Len(ops) : ops[n].op = "publish"

\* C26: within a cycle the reads and the publishes follow one another: the
\* first read is that of the first parameter, a read of parameter i + 1 is
\* issued only by the step that ends the processing of the whole reading of
\* parameter i, the entries of a parameter are processed (and published) only
\* after its read has returned, one after another, and the serial transport
\* is closed by a step that publishes nothing, after which the cycle makes no
\* publish; a cycle without an exception closes it after the cycle-duration
\* publish.
C26_CycleStepsSequential ==
    [][ /\ (pc' = "read" /\ pc \notin {"read", "entry"}) =>
              pc = "mqtt_connect" /\ pidx' = 1
        /\ (pc \in {"read", "entry"} /\ pc' = "read") => pidx' = pidx + 1
        /\ (pc \in {"read", "entry"} /\ pidx' # pidx) =>
              /\ pidx' = pidx + 1
              /\ pc' = "read"
              /\ emitted' = <<>> \/ pc = "entry"
              /\ pc = "entry" => eidx + 1 = Len(iec_item)
              /\ pc = "read" => iec_item' = <<>>
        /\ (pc' = "entry" /\ pc # "entry") =>
              /\ pc = "read"
              /\ entry'.read_len > 0
              /\ pidx' = pidx /\ eidx' = 0
              /\ emitted' = <<>>
        /\ (pc = "entry" /\ pc' = "entry") =>
              pidx' = pidx /\ eidx' = eidx + 1 /\ iec_item' = iec_item
        /\ entry'.kind = "parameter" =>
              pc = "entry" /\ pidx \in 1..Len(parameters) /\ eidx < Len(iec_item)
        /\ (HasPublish(emitted') /\ entry'.kind = "sensor") => pc = "entry"
        /\ (HasPublish(emitted') /\ pc # "finalize") =>
              /\ cyc.disconnects = 0 /\ cyc'.disconnects = 0
              /\ pc \in {"entry", "on_timeout", "online_true", "duration"}
        /\ pc = "finally" =>
              emitted' = <<>> /\ cyc'.disconnects = 1 /\ pc' = "cycle_end"
        /\ (pc' = "finally" /\ pc # "finally" /\ exc' = None) =>
              pc = "duration" ]_vars

\* C26 witness: a cycle has read both parameters, published the entries of
\* both, the online state and the cycle duration, and has closed the serial
\* transport.
C26_Witness ==
    /\ pc = "cycle_end"
    /\ cyc.disconnects = 1
    /\ exc = None
    /\ pidx = Len(parameters)
    /\ Len(iec_item) = MaxReading
    /\ cyc.online_states = << OnPayload >>
    /\ {"CE301_00123456_CURRE_1", "CE301_00123456_IS_ONLINE",
        "CE301_00123456_CYCLE_DURATION"} \subseteq DOMAIN published

\* C27: the finally clause of a cycle attempts the disconnect of the serial
\* transport once, as the last step of the cycle, whatever the cycle did
\* before: the cycle has made no attempt before it and has made one after it;
\* the step makes no call on the bus, and the exception leaving the cycle
\* (none for a successful cycle) is the one that entered the clause, whether
\* the disconnect succeeds or raises.
C27_DisconnectOnceOutcomeKept ==
    [][ /\ pc = "finally" =>
              /\ cyc.disconnects = 0 /\ cyc'.disconnects = 1
              /\ exc' = exc
              /\ pc' = "cycle_end"
              /\ emitted' = <<>>
              /\ published' = published /\ socket' = socket
        /\ cyc'.disconnects # cyc.disconnects =>
              \/ pc = "finally"
              \/ pc \in InTry /\ pc' = "cancelled" /\ cyc'.disconnects = 1
              \/ pc = "interpolate" /\ pc' = "session" /\ cyc'.disconnects = 0
        /\ (pc \in InTry /\ pc' \notin InTry) =>
              \/ pc' = "finally" /\ cyc'.disconnects = 0
              \/ pc' = "cancelled" /\ cyc'.disconnects = 1
        /\ pc' = "cycle_end" => cyc'.disconnects = 1 ]_vars

\* C27 witness: the disconnect has been attempted for a cycle that an
\* exception other than a timeout left, and the exception is still the one
\* that was raised.
C27_Witness ==
    /\ pc = "cycle_end"
    /\ cyc.disconnects = 1
    /\ exc = "EnergomeraMeterError"

\* C28: send_break is called at most once in a cycle, by the step that
\* follows the processing of the last configured parameter, with no exception
\* raised so far, and the else clause with the online=true publish is entered
\* only after it; a cycle that an exception leaves before that position has
\* not called it when it reaches the except or the finally clause.  A
\* TimeoutError raised by send_break takes the cycle to the except clause,
\* whose publishes are those of online=false, whatever was published before.
C28_BreakOnceAfterAllParameters ==
    [][ /\ cyc'.breaks # cyc.breaks =>
              \/ /\ pc = "send_break" /\ exc = None
                 /\ cyc.breaks = 0 /\ cyc'.breaks = 1
                 /\ emitted' = <<>> /\ cyc'.online_states = <<>>
              \/ pc = "interpolate" /\ cyc'.breaks = 0
        /\ (pc' = "send_break" /\ pc # "send_break") =>
              /\ exc' = None /\ cyc'.breaks = 0
              /\ pidx = Len(parameters)
              /\ \/ pc = "read" /\ iec_item' = <<>>
                 \/ pc = "entry" /\ eidx + 1 = Len(iec_item)
        /\ pc = "online_true" => cyc.breaks = 1
        /\ (pc \in {"session", "hello", "will_setup", "mqtt_connect", "read", "entry"}
              /\ pc' \in {"on_timeout", "finally"}) => cyc'.breaks = 0
        /\ pc = "send_break" =>
              /\ exc' = None => pc' = "online_true"
              /\ exc' = "TimeoutError" => pc' = "on_timeout" /\ cyc'.timed_out
              /\ exc' \notin {None, "TimeoutError"} => pc' = "finally"
        /\ (pc = "on_timeout" /\ cyc.breaks = 1 /\ pc' # "cancelled") =>
              /\ pc' = "finally"
              /\ emitted' # <<>>
              /\ \A n \in 1..Len(emitted') :
                    IsStatePublish(emitted'[n]) =>
                        /\ emitted'[n].topic = OnlineStateTopic
                        /\ emitted'[n].payload = OffPayload
              /\ ~FailedConfigPublish(emitted') =>
                    cyc'.online_states = << OffPayload >> ]_vars

\* C28 witness: the break of a cycle that published the value of a parameter
\* timed out, and the cycle has published online=false.
C28_Witness ==
    /\ pc = "finally"
    /\ cyc.breaks = 1
    /\ exc = "TimeoutError"
    /\ cyc.online_states = << OffPayload >>
    /\ "CE301_00123456_CURRE_1" \in DOMAIN last_sent

\* C29: a cycle that an exception other than a TimeoutError leaves (the
\* cancellation of the task, which is no Exception, set aside) has made no
\* state publish for the online entity, neither ON nor OFF, and none for the
\* cycle duration: it reaches its finally clause from the try block or from
\* the assertion of set_online_sensor, never from a step that published, and
\* the steps that publish the online state or the duration end with no
\* exception or with the TimeoutError.
C29_NoOnlinePublishOnOtherError ==
    [][ /\ (pc' \in {"finally", "cycle_end"} /\ exc' \notin {None, "TimeoutError"}) =>
              /\ cyc'.online_states = <<>>
              /\ StatePublishesOn(emitted', OnlineStateTopic) = <<>>
              /\ StatePublishesOn(emitted', DurationStateTopic) = <<>>
              /\ pc \notin {"online_true", "duration"}
              /\ pc = "on_timeout" => (emitted' = <<>> /\ exc' = "AssertionError")
        /\ (\/ StatePublishesOn(emitted', OnlineStateTopic) # <<>>
            \/ StatePublishesOn(emitted', DurationStateTopic) # <<>>) =>
              \/ pc \in {"online_true", "duration"} /\ exc' = None
              \/ pc = "on_timeout" /\ exc' = "TimeoutError"
              \/ pc = "finalize" ]_vars

\* C29 witness: the second cycle ends with the error of the bus connect,
\* having published no online state; the first cycle had published one.
C29_Witness ==
    /\ pc = "cycle_end"
    /\ cycles = 2
    /\ exc = "MqttError"
    /\ cyc.connect_failed
    /\ cyc.online_states = <<>>
    /\ "CE301_00123456_IS_ONLINE" \in DOMAIN published

\* C30: the stored identity changes only in the step that reads the
\* identification.  The except clause of a cycle that timed out before its
\* identification was read leaves the identity as it is and, when an earlier
\* cycle stored a complete one, addresses its publishes with it: the
\* unique_id is the one derived from the stored identity, recorded by the
\* tracker in the earlier cycle if it was announced then, and the state topic
\* is the one the earlier cycle registered the last will on.
C30_IdentityKeptAcrossTimeout ==
    [][ /\ ids' # ids => pc = "hello"
        /\ (pc = "on_timeout" /\ ~cyc.hello.read) =>
              /\ ids' = ids
              /\ (IdsOk(ids) /\ pc' # "cancelled") =>
                    /\ cycles > 1
                    /\ will.set /\ will' = will
                    /\ emitted' # <<>>
                    /\ entry'.unique_id = hass_device_id(ids) \o "_IS_ONLINE"
                    /\ entry'.prev_sent # None =>
                          entry'.unique_id \in DOMAIN published
                    /\ \A n \in 1..Len(emitted') :
                          /\ emitted'[n].op = "publish"
                          /\ IsStatePublish(emitted'[n]) =>
                                /\ emitted'[n].topic = will.topic
                                /\ emitted'[n].payload = OffPayload ]_vars

\* C30 witness: the second cycle timed out before its identification and has
\* published online=false on the state topic of the online entity that the
\* first cycle announced.
C30_Witness ==
    /\ cycles = 2
    /\ pc = "finally"
    /\ exc = "TimeoutError"
    /\ ~cyc.hello.read
    /\ IdsOk(ids)
    /\ entry.prev_sent # None
    /\ entry.unique_id = "CE301_00123456_IS_ONLINE"
    /\ Len(emitted) = 1
    /\ emitted[1].topic = will.topic /\ emitted[1].ok
    /\ cyc.online_states = << OffPayload >>

\* The stored identity has a model, a software version and a serial number.
IdentityComplete ==
    /\ ids.model \notin {None, ""}
    /\ ids.sw_version \notin {None, ""}
    /\ ids.serial_number \notin {None, ""}

\* C31: a step that publishes a discovery or state payload or that registers
\* a last will does so with a complete stored identity, which it leaves as it
\* is, for the unique_id derived from that identity, and a last will it
\* registers is on the state topic derived from it; the except clause and
\* finalize() publish and register nothing when the identity is incomplete.
C31_NoPublishWithoutIdentity ==
    [][ /\ (HasPublish(emitted') \/ will' # will) =>
              /\ IdentityComplete
              /\ ids' = ids
              /\ entry'.unique_id \in
                    { hass_device_id(ids) \o "_" \o x :
                        x \in {"CURRE", "IS_ONLINE", "CYCLE_DURATION"}
                              \cup { "CURRE_" \o ToString(n) :
                                       n \in 0 .. MaxReading } }
        /\ will' # will =>
              will'.topic = "homeassistant/binary_sensor/" \o hass_device_id(ids)
                            \o "/" \o hass_device_id(ids) \o "_IS_ONLINE/state"
        /\ (pc \in {"on_timeout", "finalize"} /\ ~IdentityComplete) =>
              ~HasPublish(emitted') /\ will' = will /\ published' = published ]_vars

\* C31 witness: the first cycle stored an identity without a serial number,
\* the second timed out before its identification, and its except clause has
\* published nothing and registered no last will.
C31_Witness ==
    /\ cycles = 2
    /\ pc = "finally"
    /\ exc = "AssertionError"
    /\ ids.model = "CE301" /\ ids.serial_number = ""
    /\ emitted = <<>>
    /\ ~will.set
    /\ published = EmptyMap

\* C32: the setup-only call of a cycle makes no call on the bus client other
\* than the registration of the last will, at most one: it publishes neither
\* a discovery nor a state payload, and it leaves the tracker and the record
\* of the payloads sent as they are.
C32_SetupOnlyRegistersWillOnly ==
    [][ pc = "will_setup" =>
          /\ ~HasPublish(emitted')
          /\ Len(emitted') <= 1
          /\ \A n \in 1..Len(emitted') : emitted'[n].op = "will_set"
          /\ emitted' # <<>> <=> ~mqtt_will_set
          /\ published' = published
          /\ last_sent' = last_sent
          /\ socket' = socket
          /\ ~entry'.reached /\ ~entry'.decided ]_vars

\* C32 witness: the setup-only call of the first cycle has registered the
\* last will of the online entity, which the tracker does not hold, and has
\* sent nothing.
C32_Witness ==
    /\ pc = "mqtt_connect"
    /\ cycles = 1
    /\ Len(emitted) = 1 /\ emitted[1].op = "will_set"
    /\ entry.kind = "online"
    /\ published = EmptyMap
    /\ will.set

\* The call made by the step, and the will it asked for.
LastWillCall == will_log'.calls[Len(will_log'.calls)]
WillAsked ==
    [set |-> TRUE, topic |-> LastWillCall.topic, payload |-> LastWillCall.payload]

\* C33 (as stated): a will_set call on a client that has a will leaves the
\* will as it is, and a will_set call that follows a will_clear call
\* registers the will it is given.
C33_WillKeptUntilCleared ==
    [][ (Len(will_log'.calls) = Len(will_log.calls) + 1
         /\ LastWillCall.op = "will_set") =>
            /\ will.set => will' = will
            /\ (Len(will_log.calls) > 0
                /\ will_log.calls[Len(will_log.calls)].op = "will_clear") =>
                  will' = WillAsked ]_vars

\* C33 (as amended): on a client that is not in a dry run, a will_set call
\* leaves a will that is set as it is, whatever topic and payload it is
\* given, and registers the will it is given when none is set, which is the
\* case after a will_clear call; on a client in a dry run neither will_set
\* nor will_clear changes anything.
C33_WillKeptUntilClearedUnlessDryRun ==
    [][ Len(will_log'.calls) = Len(will_log.calls) + 1 =>
          /\ will_log.dry_run =>
                will' = will /\ mqtt_will_set' = mqtt_will_set /\ emitted' = <<>>
          /\ (~will_log.dry_run /\ LastWillCall.op = "will_set") =>
                /\ will.set => (will' = will /\ emitted' = <<>>)
                /\ ~will.set => will' = WillAsked
                /\ (Len(will_log.calls) > 0
                    /\ will_log.calls[Len(will_log.calls)].op = "will_clear") =>
                      will' = WillAsked
                /\ mqtt_will_set'
          /\ (~will_log.dry_run /\ LastWillCall.op = "will_clear") =>
                will' = NoWill /\ ~mqtt_will_set'
          /\ will.set = mqtt_will_set /\ will'.set = mqtt_will_set' ]_vars

\* C33 witness: a client constructed with a will has ignored a will_set with
\* another topic, and after will_clear a will_set with that topic has taken
\* effect.
C33_Witness ==
    /\ pc = "will_call"
    /\ ~will_log.dry_run
    /\ Len(will_log.calls) = 3
    /\ will_log.calls[1].op = "will_set" /\ will_log.calls[1].topic = "t/other/state"
    /\ will_log.calls[2].op = "will_clear"
    /\ will_log.calls[3] = will_log.calls[1]
    /\ will.set /\ will.topic = "t/other/state"

\* The views of the entry at position idx of a reading of k entries of
\* descriptor p, derived from these and the stored identity alone.
ViewsOf(kind, p, k, idx) == hass_gen_hass_sensor_props(kind, p, k, idx, ids)

\* The step has used the views derived from descriptor, reading and
\* identity: the unique_id, the discovery payload with the display name, and
\* the topics of its publishes and of the last will it registers.
StepUsesViews(kind, p, k, idx) ==
    /\ entry'.unique_id = ViewsOf(kind, p, k, idx).unique_id
    /\ entry'.reached =>
          entry'.config_json
            = hass_config_payload(kind, p, ViewsOf(kind, p, k, idx), ids).json
    /\ \A n \in 1..Len(emitted') :
          /\ IsConfigPublish(emitted'[n]) =>
                /\ emitted'[n].topic = ViewsOf(kind, p, k, idx).config_topic
                /\ emitted'[n].payload = entry'.config_json
          /\ (IsStatePublish(emitted'[n]) \/ emitted'[n].op = "will_set") =>
                emitted'[n].topic = ViewsOf(kind, p, k, idx).state_topic

BinaryProcessed == iec_item[1]

\* C35: after the processing of a binary entity, a state payload that was
\* published carries ON when the value is the boolean true or a string equal
\* to "true" whatever its case, and OFF when it is the boolean false or any
\* other string, and it is published whenever the discovery publish did not
\* fail; for a value of another type the iteration ended with a TypeError,
\* no state payload was published, and no exception left process().
C35_BinaryStatePayload ==
    pc = "binary_value" =>
        /\ exc = None
        /\ BinaryProcessed.type \in {"bool", "str"} =>
              /\ entry.exc # "TypeError"
              /\ ~FailedConfigPublish(emitted) => Len(StatePayloads(emitted)) = 1
              /\ \A n \in 1..Len(StatePayloads(emitted)) :
                    StatePayloads(emitted)[n] =
                        IF \/ BinaryProcessed.type = "bool" /\ BinaryProcessed.b
                           \/ /\ BinaryProcessed.type = "str"
                              /\ BinaryProcessed.s \in {"true", "True", "TRUE", "tRuE"}
                        THEN OnPayload ELSE OffPayload
        /\ BinaryProcessed.type \notin {"bool", "str"} =>
              /\ StatePayloads(emitted) = <<>>
              /\ ~FailedConfigPublish(emitted) => entry.exc = "TypeError"

\* C35 witness: a value that is neither a bool nor a str was processed after
\* the string "TRUE": its discovery payload was already announced, no state
\* payload was published for it, and the caller goes on.
C35_Witness ==
    /\ pc = "binary_value"
    /\ cycles = 2
    /\ BinaryProcessed.type = "float"
    /\ entry.exc = "TypeError"
    /\ entry.prev_sent = entry.config_json
    /\ emitted = <<>>
    /\ exc = None

\* Every publish of the step is either on the config topic of the entity,
\* retained and carrying its discovery payload, or on its state topic and
\* not retained.
StepRetainsConfigOnly(kind, p, k, idx) ==
    \A n \in 1..Len(emitted') :
        emitted'[n].op = "publish" =>
            \/ /\ emitted'[n].topic = ViewsOf(kind, p, k, idx).config_topic
               /\ emitted'[n].retain
               /\ emitted'[n].payload = entry'.config_json
            \/ /\ emitted'[n].topic = ViewsOf(kind, p, k, idx).state_topic
               /\ ~emitted'[n].retain
               /\ emitted'[n].payload # entry'.config_json

\* C36: every publish on the config topic of an entity is retained and every
\* publish on its state topic is not, for the parameter entities, for the
\* online entity on the success path, on the timeout path and in finalize(),
\* and for the cycle-duration entity; nothing is published on another topic.
C36_ConfigRetainedStateNot ==
    [][ /\ HasPublish(emitted') =>
              /\ entry'.kind \in {"parameter", "online", "duration"}
              /\ pc \in {"entry", "on_timeout", "online_true", "duration", "finalize"}
        /\ entry'.kind = "parameter" =>
              StepRetainsConfigOnly("sensor", parameters[pidx], Len(iec_item), eidx)
        /\ entry'.kind = "online" =>
              StepRetainsConfigOnly("binary_sensor", OnlineParam, 1, 0)
        /\ entry'.kind = "duration" =>
              StepRetainsConfigOnly("sensor", DurationParam, 1, 0) ]_vars

\* C36 witness: finalize() has published the discovery payload of the online
\* entity, retained, and then its state, not retained.
C36_Witness ==
    /\ pc = "done"
    /\ entry.kind = "online"
    /\ Len(emitted) >= 2
    /\ emitted[1].op = "publish" /\ emitted[1].retain /\ emitted[1].ok
    /\ emitted[1].payload = entry.config_json
    /\ emitted[2].op = "publish" /\ ~emitted[2].retain /\ emitted[2].ok
    /\ emitted[2].topic = OnlineStateTopic


\* The month n months before month m of year y, counted one month at a time:
\* the month before January is December of the year before.
RECURSIVE MonthsBefore(_, _, _)
MonthsBefore(y, m, n) ==
    IF n = 0 THEN [y |-> y, m |-> m]
    ELSE IF n > 0
         THEN (IF m = 1 THEN MonthsBefore(y - 1, 12, n - 1)
               ELSE MonthsBefore(y, m - 1, n - 1))
         ELSE (IF m = 12 THEN MonthsBefore(y + 1, 1, n + 1)
               ELSE MonthsBefore(y, m + 1, n + 1))

\* The text of a month: two digits of the month, a dot, the last two digits
\* of the year.
MonthText(ym) == Pad2(ym.m) \o "." \o Pad2(ym.y % 100)

\* N of a resolved expression: its integer, or 1 without one.
MonthsAsked ==
    IF interp.arg.content = "int" /\ ~interp.arg.empty THEN interp.arg.v ELSE 1

\* The expression was resolved with an argument that is an integer, omitted,
\* or empty or blank parentheses.
MonthsResolved ==
    /\ pc = "months_done"
    /\ interp.done
    /\ interp.arg \in MonthsArgs \ {NonNumericArg}

\* N is small enough to count the months one by one.
MonthsCounted == MonthsAsked \in -MaxMonths .. MaxMonths

\* C37 as stated: for any date and any integer N the expression yields the
\* month N months before the month of the date, whatever the day, with N = 1
\* for an omitted, empty or blank argument.
C37_MonthsBeforeAnyInteger ==
    MonthsResolved =>
        /\ interp.exc = None
        /\ MonthsCounted =>
             interp.result =
                 MonthText(MonthsBefore(interp.date.y, interp.date.m, MonthsAsked))

\* C37: the "months before today" expression yields the calendar month N
\* months before the month of the date (N months after it for a negative N),
\* borrowing from the year when it crosses January and whatever the day of
\* the month, with N = 1 for an omitted argument and for empty or blank
\* parentheses, as long as that month lies in the years 1 to 9999; for an N
\* that leads outside them the expression raises ValueError and yields
\* nothing.
C37_MonthsBeforeWithinDateRange ==
    MonthsResolved =>
        /\ MonthsCounted =>
             /\ interp.exc = None
             /\ interp.result =
                    MonthText(MonthsBefore(interp.date.y, interp.date.m, MonthsAsked))
        /\ (interp.date.y * 12 + interp.date.m - 1 - MonthsAsked < 1 * 12
             \/ interp.date.y * 12 + interp.date.m - 1 - MonthsAsked >= 10000 * 12) =>
             /\ interp.exc = "ValueError"
             /\ interp.result = ""

\* 5 months before May 2022 is December 2021.
C37_Witness ==
    /\ MonthsResolved
    /\ interp.date = [y |-> 2022, m |-> 5, d |-> 1]
    /\ interp.arg = IntArg(5)
    /\ interp.exc = None
    /\ interp.result = "12.21"

====
